---- MODULE Spec2Model ----
(***************************************************************************)
(* Verification model of scerb/stake_monitor: the transaction indexer      *)
(* (src/tx_fetcher.py) and the historical ETH price oracle                 *)
(* (src/eth_price_oracle.py).                                              *)
(*                                                                         *)
(* The specifications of this module share its variables:                  *)
(*   Spec         one call of index_transactions_for_addresses: the        *)
(*                per-address fetch loop, the sort and the ledger replay;  *)
(*   SpecOracle   a sequence of EthPriceOracle._get_eth_price_fiat_at_ts   *)
(*                calls against one price cache directory;                 *)
(*   SpecLimiter  threads calling RateLimiter.wait() on one instance;      *)
(*   SpecGate     the outbound requests of one indexing run through the    *)
(*                two rate limiters the run constructs;                    *)
(*   SpecClassify the token flow of one hash and its trade type;           *)
(*   SpecRow      one iteration of the per-hash loop, up to the row;       *)
(*   SpecClient   endpoint calls of the chain-data client;                 *)
(*   SpecFlows    one hash of one address, from the records to the row;    *)
(*   SpecReplay   the sort and the replay on rows given in any order;      *)
(*   SpecLoop     one indexing run with the price lookup of every row;     *)
(*   SpecRace     two workers asking for the same cache key.               *)
(*                                                                         *)
(* Numbers.  Token and ETH amounts are Python floats in the source.  They  *)
(* are modelled as exact decimals: an integer n stands for n * 1e-9, so    *)
(* round(x, 8) is rounding to a multiple of 10 and round(x, 6) rounding to *)
(* a multiple of 1000.  The binary representation error of IEEE doubles    *)
(* (about 1e-16 relative per operation) is not modelled.  Addresses and    *)
(* transaction hashes are integers, ordered as the strings are.            *)
(* Time is in ticks of the clock; one tick is a fraction of 1/max_rps.     *)
(***************************************************************************)
EXTENDS Integers, Sequences, FiniteSets, TLC

VARIABLES
    \* ---- one indexing run (tx_fetcher.index_transactions_for_addresses)
    pc,             \* position of the run
    addr_set,       \* the addresses of the run (line 614)
    todo,           \* addresses the for loop of line 616 has not visited yet
    cur,            \* the address of the current iteration, 0 when none
    fetch_i,        \* how many of the three fetches of cur have returned
    indexed,        \* addresses whose fetches and rows are complete
    raw_rows,       \* raw_rows (line 613)
    state_by_addr,  \* state_by_addr (line 741)
    final_rows,     \* final_rows (line 742)
    idx,            \* index of the next row of the replay loop (line 744)
    returned,       \* what the caller received: the rows, or the exception
    \* ---- the price oracle (eth_price_oracle.EthPriceOracle)
    pcache,         \* the files of the price cache directory, by (bucket, currency)
    pwrites,        \* how often each cache file has been written
    calls,          \* number of quote calls made
    last_call,      \* the quote call in progress, or the last one made
    prev_call,      \* the quote call completed before last_call
    \* ---- rate limiting
    clock,          \* time.time()
    rl_last,        \* RateLimiter._last of the oracle's limiter
    es_last,        \* EtherscanClient._last
    lock,           \* holder of RateLimiter._lock, 0 when free
    tpc,            \* position of each thread: idle, in a wait, or in its request
    twake,          \* the earliest instant the wait of a thread may end and,
                    \* during its request, the instant it was granted
    grants,         \* the requests granted, in order: who, where to, when
    \* ---- the classifier (tx_fetcher._compute_cor_flows, _classify_trade)
    cor_legs,       \* the token transfers of one transaction hash (token_txs)
    eth_flow,       \* eth_flows[h]
    cor_flow,       \* cor_flows[h], once computed
    classified,     \* what _classify_trade returned
    \* ---- one row of the per-hash loop (tx_fetcher.py lines 628-736)
    rb,             \* the locals of the iteration
    row,            \* the row appended to raw_rows, once built
    \* ---- the HTTP clients (EtherscanClient._get, EthPriceOracle._http_get)
    es_cache,       \* the files of the chain-data cache directory, by cache key
    op,             \* the endpoint call in progress, or the last one made
    g,              \* the locals of the _get / _http_get call in progress
    gets,           \* number of endpoint calls made
    \* ---- the flows of one transaction hash (tx_fetcher._compute_eth_flows)
    eth_legs,       \* the normal and internal transactions of the hash
    \* ---- the price lookups of the rows of a run (lines 644-650)
    quotes,         \* what the oracle did for each row produced, in order
    \* ---- two workers that miss the same cache file
    wk,             \* position and locals of each worker
    shared          \* the cache file both workers write

runVars == <<pc, addr_set, todo, cur, fetch_i, indexed, raw_rows,
             state_by_addr, final_rows, idx, returned>>
oracleVars == <<pcache, pwrites, calls, last_call, prev_call>>
rateVars == <<clock, rl_last, es_last, lock, tpc, twake, grants>>
classVars == <<cor_legs, eth_flow, cor_flow, classified>>
rowVars == <<rb, row>>
clientVars == <<es_cache, op, g, gets>>
lateVars == <<eth_legs, quotes, wk, shared>>
extVars == <<classVars, rowVars, clientVars, lateVars>>
coreVars == <<runVars, oracleVars, rateVars>>
vars == <<coreVars, extVars>>

----------------------------------------------------------------------------
(* Bounds of the model *)

MaxRows == 2        \* rows produced in one run
MaxBlock == 2       \* block numbers 1..MaxBlock
MaxCalls == 2       \* quote calls made on one price cache
NThreads == 2       \* threads sharing one RateLimiter
MaxClock == 6       \* the clock stops here
MaxGrants == 3      \* requests granted
MinInterval == 2    \* 1 / max_rps, in ticks of the clock
MaxLegs == 2        \* token transfers of one transaction hash
MaxGets == 2        \* endpoint calls made by one client

Addrs == {1, 2}     \* the addresses a run may be given
Threads == 1..NThreads
Blocks == 1..MaxBlock
Timestamps == {1, 2}

----------------------------------------------------------------------------
(* Decimal rounding: Python's round(x, ndigits) on exact decimals *)

\* x rounded to the nearest multiple of q, ties to the even multiple.
RoundTo(x, q) ==
    LET r == x % q
        lo == x - r
    IN  IF 2 * r < q THEN lo
        ELSE IF 2 * r > q THEN lo + q
        ELSE IF (lo \div q) % 2 = 0 THEN lo ELSE lo + q

Round8(x) == RoundTo(x, 10)
Round6(x) == RoundTo(x, 1000)

----------------------------------------------------------------------------
(* EtherscanClient._get: cache lookup, then at most `retries` attempts *)

EsRetries == 3
Responses == {"ok", "429", "err"}
\* what the provider answers to the attempts of one _get call
RespSeqs == [1..EsRetries -> Responses]

\* The for loop of _get from attempt number `attempt` (0-based) on: a 429 and
\* any other failure go to the next attempt, a success returns the body,
\* and after the last attempt the RuntimeError is raised.
RECURSIVE EsGetLoop(_, _)
EsGetLoop(resps, attempt) ==
    IF attempt >= EsRetries
    THEN [ok |-> FALSE, attempts |-> attempt]
    ELSE IF resps[attempt + 1] = "ok"
         THEN [ok |-> TRUE, attempts |-> attempt + 1]
         ELSE EsGetLoop(resps, attempt + 1)

\* _get(params, cache_key): a readable cache file is returned without any
\* network attempt.
EsGet(cached, resps) ==
    IF cached THEN [ok |-> TRUE, attempts |-> 0] ELSE EsGetLoop(resps, 0)

----------------------------------------------------------------------------
(* The rows of a run *)

TradeTypes == {"stake", "unstake", "transfer"}
\* cor_in / cor_out of a token flow, in 1e-9 COR: 0, 4.04e-7 and 8e-7
CorAmounts == {0, 404, 800}
\* (eth_in, eth_out, gas_eth) of an ETH flow, in 1e-9 ETH
EthLegs == {<<0, 0, 0>>, <<0, 2600, 700>>, <<1500, 0, 0>>}

Flow(t, ci, co, e) ==
    [trade_type |-> t, cor_in |-> ci, cor_out |-> co,
     eth_in |-> e[1], eth_out |-> e[2], gas_eth |-> e[3]]

\* What one transaction hash of an address contributes to a row: its block
\* and timestamp, its flows and the trade type the classifier gave them.
\* Either the position varies and the flow is a plain incoming transfer, or
\* the flow varies at block 1, timestamp 1.
RowInputs ==
    {[block |-> b, timestamp |-> t, flow |-> Flow("transfer", 800, 0, <<0, 0, 0>>)] :
        b \in Blocks, t \in Timestamps}
    \cup
    {[block |-> 1, timestamp |-> 1, flow |-> Flow(tt, ci, co, <<0, 0, 0>>)] :
        tt \in TradeTypes, ci \in CorAmounts, co \in CorAmounts}
    \cup
    {[block |-> 1, timestamp |-> 1, flow |-> Flow(tt, 0, 0, e)] :
        tt \in TradeTypes, e \in EthLegs}

\* The row dictionary of lines 702-728, less its USD columns.  eth_* are
\* rounded to 18 places, below the resolution of the model.
MakeRow(addr, h, inp) ==
    [address |-> addr, tx_hash |-> h,
     block |-> inp.block, timestamp |-> inp.timestamp,
     eth_in |-> inp.flow.eth_in, eth_out |-> inp.flow.eth_out,
     gas_fee_eth |-> inp.flow.gas_eth,
     cor_in |-> Round8(inp.flow.cor_in), cor_out |-> Round8(inp.flow.cor_out),
     trade_type |-> inp.flow.trade_type]

\* RowKey as a sort that forgets the block number would have it
RowKeyNoBlock(r) == <<r.address, 0, r.timestamp, r.tx_hash>>

\* RowKey as a sort that forgets the transaction hash would have it
RowKeyNoHash(r) == <<r.address, r.block, r.timestamp, 0>>

\* The sort key of line 740.
RowKey(r) == <<r.address, r.block, r.timestamp, r.tx_hash>>

\* Python's tuple comparison on keys of four integers.
KeyLess(a, b) ==
    \E i \in 1..4 : a[i] < b[i] /\ \A j \in 1..(i - 1) : a[j] = b[j]

\* list.sort(key=...) is a stable sort: r goes behind every row whose key
\* is not greater than its own.
RECURSIVE InsertRow(_, _)
InsertRow(sorted, r) ==
    IF sorted = <<>> THEN <<r>>
    ELSE IF KeyLess(RowKey(r), RowKey(Head(sorted)))
         THEN <<r>> \o sorted
         ELSE <<Head(sorted)>> \o InsertRow(Tail(sorted), r)

RECURSIVE SortInto(_, _)
SortInto(sorted, rest) ==
    IF rest = <<>> THEN sorted
    ELSE SortInto(InsertRow(sorted, Head(rest)), Tail(rest))

SortRows(rows) == SortInto(<<>>, rows)

\* state_by_addr.setdefault(addr, {...}): the ledger state of an address
ZeroState == [eth |-> 0, cor_wallet |-> 0, cor_staked |-> 0]

\* ApplyRow without the stake and unstake branches: every row only changes
\* the wallet
ApplyRowWalletOnly(st, r) ==
    [eth |-> st.eth + (r.eth_in - r.eth_out - r.gas_fee_eth),
     cor_wallet |-> st.cor_wallet + (r.cor_in - r.cor_out),
     cor_staked |-> st.cor_staked]

\* ApplyRow with the stake branch taken for every trade type
ApplyRowStakeAll(st, r) ==
    [eth |-> st.eth + (r.eth_in - r.eth_out - r.gas_fee_eth),
     cor_wallet |-> st.cor_wallet + (r.cor_in - r.cor_out),
     cor_staked |-> st.cor_staked + (0 - (r.cor_in - r.cor_out))]

\* Lines 752-768: the ledger state of the row's address after the row.
ApplyRow(st, r) ==
    LET eth == st.eth + (r.eth_in - r.eth_out - r.gas_fee_eth)
        wallet_delta == r.cor_in - r.cor_out
    IN  IF r.trade_type = "stake"
        THEN [eth |-> eth,
              cor_wallet |-> st.cor_wallet + wallet_delta,
              cor_staked |-> st.cor_staked + (0 - wallet_delta)]
        ELSE IF r.trade_type = "unstake"
        THEN [eth |-> eth,
              cor_wallet |-> st.cor_wallet + wallet_delta,
              cor_staked |-> st.cor_staked - wallet_delta]
        ELSE [eth |-> eth,
              cor_wallet |-> st.cor_wallet + wallet_delta,
              cor_staked |-> st.cor_staked]

\* Lines 770-776: the output row, the four balances rounded to 6 places.
OutRow(r, st) ==
    LET owned == st.cor_wallet + st.cor_staked
    IN  [address |-> r.address, tx_hash |-> r.tx_hash,
         block |-> r.block, timestamp |-> r.timestamp,
         eth_in |-> r.eth_in, eth_out |-> r.eth_out,
         gas_fee_eth |-> r.gas_fee_eth,
         cor_in |-> r.cor_in, cor_out |-> r.cor_out,
         trade_type |-> r.trade_type,
         eth_balance_after |-> Round6(st.eth),
         cor_wallet_after |-> Round6(st.cor_wallet),
         cor_staked_after |-> Round6(st.cor_staked),
         cor_owned_after |-> Round6(owned)]

\* the rows of address a in a list of rows, in list order
RowsOf(rows, a) == SelectSeq(rows, LAMBDA r : r.address = a)

----------------------------------------------------------------------------
(* EthPriceOracle *)

BucketSecs == 300
\* _bucket_5min (line 48)
Bucket5Min(ts) == ts - (ts % BucketSecs)

Currencies == {"usd", "gbp"}
\* timestamps quotes are asked for: two in one bucket, one in the next
QuoteTimestamps == {10, 200, 310}
CacheKeys == {<<Bucket5Min(ts), c>> : ts \in QuoteTimestamps, c \in Currencies}

\* a cache file that does not exist
NoFile == [present |-> FALSE, price |-> 0, source |-> "none"]

\* Python's Optional[float]
None == [some |-> FALSE, val |-> 0]
Some(x) == [some |-> TRUE, val |-> x]
\* the truth value of an Optional[float]: None and 0.0 are false
Truthy(opt) == opt.some /\ opt.val # 0

\* _read_cache (lines 54-65): the price of the file, None without a file
ReadCache(cache, key) ==
    IF cache[key].present THEN Some(cache[key].price) ELSE None

\* _write_cache (lines 67-79): the file is overwritten
WriteCache(cache, key, price, source) ==
    [cache EXCEPT ![key] = [present |-> TRUE, price |-> price, source |-> source]]

\* retries of the three _http_get calls (lines 107, 128, 184)
CgRetries == 4
CcRetries == 4
WideRetries == 5
\* What a provider answers to the attempts of one _http_get: success at
\* once, success after one 429 or one failure, or 429s / failures throughout.
HttpPlans ==
    {[i \in 1..WideRetries |-> "ok"],
     [i \in 1..WideRetries |-> IF i = 1 THEN "429" ELSE "ok"],
     [i \in 1..WideRetries |-> IF i = 1 THEN "err" ELSE "ok"],
     [i \in 1..WideRetries |-> "429"],
     [i \in 1..WideRetries |-> "err"]}

\* _http_get (lines 81-98) from attempt number `attempt` (0-based) on: every
\* attempt is one network request; a 429 and any other failure go to the
\* next attempt, and after the last one the RuntimeError is raised.
RECURSIVE HttpGetLoop(_, _, _)
HttpGetLoop(resps, retries, attempt) ==
    IF attempt >= retries
    THEN [ok |-> FALSE, attempts |-> attempt]
    ELSE IF resps[attempt + 1] = "ok"
         THEN [ok |-> TRUE, attempts |-> attempt + 1]
         ELSE HttpGetLoop(resps, retries, attempt + 1)

HttpGet(resps, retries) == HttpGetLoop(resps, retries, 0)

\* What the body of a successful response yields once its samples are
\* reduced to one price (the nearest sample of lines 112-121 and 134-144,
\* the median of lines 187-189): no usable sample, or a price.  The
\* providers' prices are positive.
ProviderBodies == {None, Some(7), Some(9)}

\* a quote call that has not been made
NoCall ==
    [stage |-> "none", ts |-> 0, currency |-> "usd", key |-> <<0, "usd">>,
     fetches |-> 0, price |-> 0, src |-> "none", sentinel_at_start |-> FALSE]

CallDone(c) == c.stage \in {"returned", "raised"}

----------------------------------------------------------------------------
(* Initial values of the parts a specification does not use *)

OracleIdle ==
    /\ pcache = [k \in CacheKeys |-> NoFile]
    /\ pwrites = [k \in CacheKeys |-> 0]
    /\ calls = 0
    /\ last_call = NoCall /\ prev_call = NoCall

\* Both limiters start with _last = 0.0 and time.time() is seconds since
\* 1970, far more than 1 / max_rps: the first wait of a limiter never sleeps.
RateIdle ==
    /\ clock = MinInterval /\ rl_last = 0 /\ es_last = 0 /\ lock = 0
    /\ tpc = <<>> /\ twake = <<>> /\ grants = <<>>

RunIdle ==
    /\ pc = "idle" /\ addr_set = {} /\ todo = {} /\ cur = 0 /\ fetch_i = 0
    /\ indexed = {} /\ raw_rows = <<>> /\ state_by_addr = <<>>
    /\ final_rows = <<>> /\ idx = 0
    /\ returned = [status |-> "pending", rows |-> <<>>]

\* default flows of lines 629-639, used for a hash without the flow
NoEthFlow == [eth_in |-> 0, eth_out |-> 0, sources |-> {}]

NoCorFlow == [cor_in |-> 0, cor_out |-> 0, stake_tag |-> "none", sources |-> {}]

NotClassified == [type |-> "pending", tax_cor |-> 0, tax_rate |-> 0]

ClassIdle ==
    /\ cor_legs = <<>> /\ eth_flow = NoEthFlow /\ cor_flow = NoCorFlow
    /\ classified = NotClassified

\* Python's Optional[float] for a value kept as a fraction <<n, d>>
NoneF == [some |-> FALSE, val |-> <<0, 1>>]
SomeF(f) == [some |-> TRUE, val |-> f]

\* what _refine_buy_with_logs returns when it returns None
NoRefine ==
    [some |-> FALSE, router_fee_cor |-> 0, router_received_cor |-> 0,
     actual_tax_cor |-> 0, gross_from_pool_cor |-> 0,
     unit_price_usd |-> <<0, 1>>, tax_usd |-> <<0, 1>>, router_fee_usd |-> <<0, 1>>]

NoOutcome == [fetch |-> "none", logs |-> <<>>]

RowIdleLocals ==
    [pc |-> "idle", ef |-> [eth_in |-> 0, eth_out |-> 0, gas_eth |-> 0, sources |-> {}],
     cf |-> NoCorFlow, ts |-> 0, blk |-> 0,
     eth_usd |-> 0, src |-> "unavailable",
     trade_type |-> "pending", tax_rate |-> 0, tax_cor |-> 0,
     eth_in_usd |-> 0, eth_out_usd |-> 0, gas_usd |-> 0, net_usd |-> 0,
     unit_price_usd |-> NoneF, tax_usd |-> <<0, 1>>,
     router_fee_cor |-> 0, router_fee_usd |-> <<0, 1>>,
     cor_gross_from_pool |-> None,
     outcome |-> NoOutcome, refine |-> NoRefine]

NoRow == [built |-> FALSE]

RowIdle == rb = RowIdleLocals /\ row = NoRow

\* a request that has not been made, and the cache key of a call without one
NoReq ==
    [ep |-> "none", client |-> "none", address |-> "", contract |-> "",
     sb |-> 0, eb |-> 0, ts |-> 0, closest |-> "", topic0 |-> <<>>]

NoKey == <<"none">>

NoBody == [status |-> "", message |-> "", kind |-> "none", n |-> 0]

NoAttempt ==
    [attempt |-> 0, status |-> "none", hint |-> [kind |-> "none", secs |-> 0],
     slept |-> 0, wrote |-> FALSE]

NoGet ==
    [pc |-> "idle", req |-> NoReq, key |-> NoKey, retries |-> 0, attempt |-> 0,
     waits |-> 0, net |-> 0, last_err |-> "none", last |-> NoAttempt,
     body |-> NoBody, hit |-> FALSE, cached_at_start |-> FALSE]

NoOp == [pc |-> "idle", req |-> NoReq, body |-> NoBody, result |-> 0, fell_back |-> FALSE]

ClientIdle == es_cache = <<>> /\ op = NoOp /\ g = NoGet /\ gets = 0

\* no transaction of the hash fetched
NoEthLegs == [normal |-> <<>>, internals |-> <<>>]

\* the cache file does not exist
NoShared == [present |-> FALSE, body |-> NoBody, ts_bucket |-> 0, price |-> 0,
             source |-> "", fetched_at |-> 0]

LateIdle == eth_legs = NoEthLegs /\ quotes = <<>> /\ wk = <<>> /\ shared = NoShared

ExtIdle == ClassIdle /\ RowIdle /\ ClientIdle /\ LateIdle

----------------------------------------------------------------------------
(* Spec: one call of index_transactions_for_addresses *)

\* The run is given any set of addresses; the block range needs no lookup
\* (no start_date, no end_date).
InitRun ==
    /\ pc = "loop"
    /\ addr_set \in SUBSET Addrs
    /\ todo = addr_set
    /\ cur = 0 /\ fetch_i = 0 /\ indexed = {}
    /\ raw_rows = <<>>
    /\ state_by_addr = [a \in Addrs |-> ZeroState]
    /\ final_rows = <<>> /\ idx = 0
    /\ returned = [status |-> "pending", rows |-> <<>>]

Init == InitRun /\ OracleIdle /\ RateIdle /\ ExtIdle

\* for addr in addr_set (line 616): a set is iterated in no particular order
NextAddr ==
    /\ pc = "loop" /\ todo # {}
    /\ \E a \in todo :
          /\ cur' = a
          /\ todo' = todo \ {a}
    /\ fetch_i' = 0
    /\ pc' = "fetch"
    /\ UNCHANGED <<addr_set, indexed, raw_rows, state_by_addr, final_rows, idx, returned>>
    /\ UNCHANGED <<oracleVars, rateVars, extVars>>

\* Lines 619-621: get_normal_txs, get_internal_txs, get_token_txs_for_contract,
\* one per step.  Each is one _get; none of the three calls is inside a
\* try, so a RuntimeError of _get leaves index_transactions_for_addresses.
Fetch ==
    /\ pc = "fetch"
    /\ \E got \in {EsGet(cached, resps) : cached \in BOOLEAN, resps \in RespSeqs} :
          IF got.ok
          THEN /\ fetch_i' = fetch_i + 1
               /\ pc' = IF fetch_i + 1 = 3 THEN "rows" ELSE "fetch"
               /\ returned' = returned
          ELSE /\ fetch_i' = fetch_i
               /\ pc' = "raised"
               /\ returned' = [status |-> "raised", rows |-> <<>>]
    /\ UNCHANGED <<addr_set, todo, cur, indexed, raw_rows, state_by_addr, final_rows, idx>>
    /\ UNCHANGED <<oracleVars, rateVars, extVars>>

\* for h in sorted(all_hashes) (line 628): one row per hash, hashes
\* ascending; the hashes of an address are numbered in that order
ProduceRow ==
    /\ pc = "rows"
    /\ Len(raw_rows) < MaxRows
    /\ \E inp \in RowInputs :
          raw_rows' = Append(raw_rows, MakeRow(cur, Len(RowsOf(raw_rows, cur)) + 1, inp))
    /\ UNCHANGED <<pc, addr_set, todo, cur, fetch_i, indexed, state_by_addr, final_rows, idx, returned>>
    /\ UNCHANGED <<oracleVars, rateVars, extVars>>

\* the hashes of cur are exhausted: back to the for loop of line 616
EndAddr ==
    /\ pc = "rows"
    /\ indexed' = indexed \cup {cur}
    /\ cur' = 0
    /\ pc' = "loop"
    /\ UNCHANGED <<addr_set, todo, fetch_i, raw_rows, state_by_addr, final_rows, idx, returned>>
    /\ UNCHANGED <<oracleVars, rateVars, extVars>>

\* Line 740: raw_rows.sort(...), once every address is done
SortStep ==
    /\ pc = "loop" /\ todo = {}
    /\ raw_rows' = SortRows(raw_rows)
    /\ idx' = 1
    /\ pc' = "replay"
    /\ UNCHANGED <<addr_set, todo, cur, fetch_i, indexed, state_by_addr, final_rows, returned>>
    /\ UNCHANGED <<oracleVars, rateVars, extVars>>

\* One iteration of the loop of lines 744-778
ReplayRow ==
    /\ pc = "replay" /\ idx <= Len(raw_rows)
    /\ LET r == raw_rows[idx]
           st == ApplyRow(state_by_addr[r.address], r)
       IN  /\ state_by_addr' = [state_by_addr EXCEPT ![r.address] = st]
           /\ final_rows' = Append(final_rows, OutRow(r, st))
    /\ idx' = idx + 1
    /\ UNCHANGED <<pc, addr_set, todo, cur, fetch_i, indexed, raw_rows, returned>>
    /\ UNCHANGED <<oracleVars, rateVars, extVars>>

\* Line 780: return final_rows
Return ==
    /\ pc = "replay" /\ idx > Len(raw_rows)
    /\ returned' = [status |-> "rows", rows |-> final_rows]
    /\ pc' = "done"
    /\ UNCHANGED <<addr_set, todo, cur, fetch_i, indexed, raw_rows, state_by_addr, final_rows, idx>>
    /\ UNCHANGED <<oracleVars, rateVars, extVars>>

Next ==
    \/ NextAddr
    \/ Fetch
    \/ ProduceRow
    \/ EndAddr
    \/ SortStep
    \/ ReplayRow
    \/ Return

Spec == Init /\ [][Next]_vars

----------------------------------------------------------------------------
(* SpecOracle: quote calls, one after the other, on one price cache *)

InitOracle == OracleIdle /\ RunIdle /\ RateIdle /\ ExtIdle

\* Lines 148-159 of _get_eth_price_fiat_at_ts: bucket, cache lookup, and the
\* return of a cached price that is true as a Python value.
QuoteCall ==
    /\ last_call.stage = "none" \/ CallDone(last_call)
    /\ calls < MaxCalls
    /\ \E ts \in QuoteTimestamps, c \in Currencies :
          LET key == <<Bucket5Min(ts), c>>
              cached == ReadCache(pcache, key)
              call == [stage |-> "coingecko", ts |-> ts, currency |-> c, key |-> key,
                       fetches |-> 0, price |-> 0, src |-> "none",
                       sentinel_at_start |->
                           pcache[key].present /\ pcache[key].source = "unavailable"]
          IN  last_call' =
                  IF Truthy(cached)
                  THEN [call EXCEPT !.stage = "returned", !.price = cached.val, !.src = "cache"]
                  ELSE call
    /\ prev_call' = last_call
    /\ calls' = calls + 1
    /\ UNCHANGED <<pcache, pwrites>>
    /\ UNCHANGED <<runVars, rateVars, extVars>>

\* Lines 161-169: _fetch_from_coingecko inside try / except Exception: pass
TryCoinGecko ==
    /\ last_call.stage = "coingecko"
    /\ \E resps \in HttpPlans, body \in ProviderBodies :
          LET got == HttpGet(resps, CgRetries)
              call == [last_call EXCEPT !.fetches = @ + got.attempts]
          IN  IF got.ok /\ body.some
              THEN /\ pcache' = WriteCache(pcache, call.key, body.val, "coingecko")
                   /\ pwrites' = [pwrites EXCEPT ![call.key] = @ + 1]
                   /\ last_call' = [call EXCEPT !.stage = "returned",
                                                !.price = body.val, !.src = "coingecko"]
              ELSE /\ last_call' = [call EXCEPT !.stage = "cryptocompare"]
                   /\ UNCHANGED <<pcache, pwrites>>
    /\ UNCHANGED <<calls, prev_call>>
    /\ UNCHANGED <<runVars, rateVars, extVars>>

\* Lines 171-176: _fetch_from_cryptocompare, outside any try: the
\* RuntimeError of _http_get leaves _get_eth_price_fiat_at_ts.
TryCryptoCompare ==
    /\ last_call.stage = "cryptocompare"
    /\ \E resps \in HttpPlans, body \in ProviderBodies :
          LET got == HttpGet(resps, CcRetries)
              call == [last_call EXCEPT !.fetches = @ + got.attempts]
          IN  IF ~got.ok
              THEN /\ last_call' = [call EXCEPT !.stage = "raised"]
                   /\ UNCHANGED <<pcache, pwrites>>
              ELSE IF body.some
              THEN /\ pcache' = WriteCache(pcache, call.key, body.val, "cryptocompare")
                   /\ pwrites' = [pwrites EXCEPT ![call.key] = @ + 1]
                   /\ last_call' = [call EXCEPT !.stage = "returned",
                                                !.price = body.val, !.src = "cryptocompare"]
              ELSE /\ last_call' = [call EXCEPT !.stage = "widen"]
                   /\ UNCHANGED <<pcache, pwrites>>
    /\ UNCHANGED <<calls, prev_call>>
    /\ UNCHANGED <<runVars, rateVars, extVars>>

\* Lines 178-197: the widened CoinGecko window inside try / except, and the
\* sentinel when it gives nothing.
TryWiden ==
    /\ last_call.stage = "widen"
    /\ \E resps \in HttpPlans, body \in ProviderBodies :
          LET got == HttpGet(resps, WideRetries)
              call == [last_call EXCEPT !.fetches = @ + got.attempts]
          IN  IF got.ok /\ body.some
              THEN /\ pcache' = WriteCache(pcache, call.key, body.val, "coingecko_median")
                   /\ last_call' = [call EXCEPT !.stage = "returned",
                                                !.price = body.val, !.src = "coingecko_median"]
              ELSE /\ pcache' = WriteCache(pcache, call.key, 0, "unavailable")
                   /\ last_call' = [call EXCEPT !.stage = "returned",
                                                !.price = 0, !.src = "unavailable"]
    /\ pwrites' = [pwrites EXCEPT ![last_call.key] = @ + 1]
    /\ UNCHANGED <<calls, prev_call>>
    /\ UNCHANGED <<runVars, rateVars, extVars>>

NextOracle ==
    \/ QuoteCall
    \/ TryCoinGecko
    \/ TryCryptoCompare
    \/ TryWiden

SpecOracle == InitOracle /\ [][NextOracle]_vars

----------------------------------------------------------------------------
(* Rate limiting: RateLimiter.wait and EtherscanClient._rl_wait *)

\* how long a wait entered at `now` with last grant `last` has to sleep
SleepFor(now, last) ==
    LET delta == now - last
    IN  IF delta < MinInterval THEN MinInterval - delta ELSE 0

\* `with self._lock` (eth_price_oracle.py line 30) lets t in when no thread
\* holds the lock
CanAcquireNoLock(t) == TRUE

CanAcquire(t) == lock = 0

\* RateLimiter.wait, lines 30-35: take the lock, read the clock, and sleep
\* for what is missing to min_interval since _last.
RlEnter(t) ==
    /\ tpc[t] = "idle"
    /\ Len(grants) < MaxGrants
    /\ CanAcquire(t)
    /\ lock' = t
    /\ tpc' = [tpc EXCEPT ![t] = "rl_wait"]
    /\ twake' = [twake EXCEPT ![t] = clock + SleepFor(clock, rl_last)]
    /\ UNCHANGED <<clock, rl_last, es_last, grants>>
    /\ UNCHANGED <<runVars, oracleVars, extVars>>

\* RateLimiter.wait, line 36 and the end of the with block: time.sleep
\* returns no earlier than asked; _last is the clock read then, and the lock
\* is released.  The caller issues its request.
RlLeave(t) ==
    /\ tpc[t] = "rl_wait"
    /\ clock >= twake[t]
    /\ rl_last' = clock
    /\ grants' = Append(grants, [by |-> t, dest |-> "price", at |-> clock])
    /\ lock' = 0
    /\ tpc' = [tpc EXCEPT ![t] = "request"]
    /\ twake' = [twake EXCEPT ![t] = clock]
    /\ UNCHANGED <<clock, es_last>>
    /\ UNCHANGED <<runVars, oracleVars, extVars>>

\* EtherscanClient._rl_wait, lines 119-123: the client keeps its own _last
\* and takes no lock.
EsEnter(t) ==
    /\ tpc[t] = "idle"
    /\ Len(grants) < MaxGrants
    /\ tpc' = [tpc EXCEPT ![t] = "es_wait"]
    /\ twake' = [twake EXCEPT ![t] = clock + SleepFor(clock, es_last)]
    /\ UNCHANGED <<clock, rl_last, es_last, lock, grants>>
    /\ UNCHANGED <<runVars, oracleVars, extVars>>

\* EtherscanClient._rl_wait, line 124, and the request of line 143
EsLeave(t) ==
    /\ tpc[t] = "es_wait"
    /\ clock >= twake[t]
    /\ es_last' = clock
    /\ grants' = Append(grants, [by |-> t, dest |-> "etherscan", at |-> clock])
    /\ tpc' = [tpc EXCEPT ![t] = "request"]
    /\ twake' = [twake EXCEPT ![t] = clock]
    /\ UNCHANGED <<clock, rl_last, lock>>
    /\ UNCHANGED <<runVars, oracleVars, extVars>>

\* session.get (eth_price_oracle.py line 86, tx_fetcher.py line 143): the
\* request of t has been answered, `took` ticks or more after it was granted
Respond(t, took) ==
    /\ tpc[t] = "request"
    /\ clock >= twake[t] + took
    /\ tpc' = [tpc EXCEPT ![t] = "idle"]
    /\ UNCHANGED <<clock, rl_last, es_last, lock, twake, grants>>
    /\ UNCHANGED <<runVars, oracleVars, extVars>>

\* time passes
Tick ==
    /\ clock < MaxClock
    /\ clock' = clock + 1
    /\ UNCHANGED <<rl_last, es_last, lock, tpc, twake, grants>>
    /\ UNCHANGED <<runVars, oracleVars, extVars>>

InitRate(threads) ==
    /\ clock = MinInterval /\ rl_last = 0 /\ es_last = 0 /\ lock = 0
    /\ tpc = [t \in threads |-> "idle"]
    /\ twake = [t \in threads |-> 0]
    /\ grants = <<>>

\* SpecLimiter: the threads call wait() on one RateLimiter, again and
\* again; what a thread does between two calls may take no time at all.
InitLimiter == InitRate(Threads) /\ RunIdle /\ OracleIdle /\ ExtIdle

NextLimiter ==
    \/ \E t \in Threads : RlEnter(t)
    \/ \E t \in Threads : RlLeave(t)
    \/ \E t \in Threads : Respond(t, 0)
    \/ Tick

SpecLimiter == InitLimiter /\ [][NextLimiter]_vars

\* SpecGate: the one thread of an indexing run.  The run builds an
\* EtherscanClient and an EthPriceOracle from the same rate_limit_rps
\* (tx_fetcher.py lines 592-593); its chain-data requests wait in
\* EtherscanClient._rl_wait, its price requests in the oracle's RateLimiter.
\* A request is answered a tick or more after it was granted.
InitGate == InitRate({1}) /\ RunIdle /\ OracleIdle /\ ExtIdle

NextGate ==
    \/ EsEnter(1)
    \/ EsLeave(1)
    \/ RlEnter(1)
    \/ RlLeave(1)
    \/ Respond(1, 1)
    \/ Tick

SpecGate == InitGate /\ [][NextGate]_vars

----------------------------------------------------------------------------
(* SpecClassify: the token flow of one transaction hash and its trade type *)

\* Who a transfer is from or to: the indexed address, the staking pool, the
\* rewards contract, the node reward sender, another address of MY_ADDRESSES,
\* anybody else.
Parties == {"me", "pool", "rewards", "node", "mine", "other"}
\* MY_ADDRESSES (lines 106, 586-587)
MyAddresses == {"me", "mine"}
\* the value of a token transfer, in 1e-9 COR
LegAmounts == {0, 1900}
\* tokentx returns the transfers the address sends or receives
TokenLegs ==
    {[from |-> "me", to |-> x, amt |-> a] : x \in Parties, a \in LegAmounts}
    \cup {[from |-> x, to |-> "me", amt |-> a] : x \in Parties, a \in LegAmounts}

LegSeqs == UNION {[1..n -> TokenLegs] : n \in 0..MaxLegs}

\* AddCorLeg that leaves the tags of `skip` out of the sources
AddCorLegWithout(e, t, skip) ==
    LET in == t.to = "me"
        out == t.from = "me"
        tag == IF t.from = "pool" /\ t.to = "me" THEN "unstake"
               ELSE IF t.to = "pool" /\ t.from = "me" THEN "stake"
               ELSE e.stake_tag
        src == (IF in THEN {"incoming_external"} ELSE {})
               \cup (IF out THEN {"self_out"} ELSE {})
               \cup (IF t.from = "rewards" /\ in THEN {"staking_reward"} ELSE {})
               \cup (IF t.from = "node" /\ in THEN {"node_reward"} ELSE {})
               \cup (IF out /\ t.to \in MyAddresses /\ t.to # "me"
                     THEN {"internal_out", "internal"} ELSE {})
               \cup (IF in /\ t.from \in MyAddresses /\ t.from # "me"
                     THEN {"internal_in", "internal"} ELSE {})
    IN  [cor_in |-> e.cor_in + (IF in THEN t.amt ELSE 0),
         cor_out |-> e.cor_out + (IF out THEN t.amt ELSE 0),
         stake_tag |-> tag,
         sources |-> e.sources \cup (src \ skip)]

\* a loop that does not tag what the address receives
AddCorLegNoIncomingTag(e, t) == AddCorLegWithout(e, t, {"incoming_external"})

\* a loop that does not know the rewards contract
AddCorLegNoRewardTag(e, t) == AddCorLegWithout(e, t, {"staking_reward"})

\* One iteration of the loop of _compute_cor_flows (lines 377-416) on the
\* flow e of the transfer's hash.
AddCorLeg(e, t) ==
    LET in == t.to = "me"
        out == t.from = "me"
        tag == IF t.from = "pool" /\ t.to = "me" THEN "unstake"
               ELSE IF t.to = "pool" /\ t.from = "me" THEN "stake"
               ELSE e.stake_tag
        src == (IF in THEN {"incoming_external"} ELSE {})
               \cup (IF out THEN {"self_out"} ELSE {})
               \cup (IF t.from = "rewards" /\ in THEN {"staking_reward"} ELSE {})
               \cup (IF t.from = "node" /\ in THEN {"node_reward"} ELSE {})
               \cup (IF out /\ t.to \in MyAddresses /\ t.to # "me"
                     THEN {"internal_out", "internal"} ELSE {})
               \cup (IF in /\ t.from \in MyAddresses /\ t.from # "me"
                     THEN {"internal_in", "internal"} ELSE {})
    IN  [cor_in |-> e.cor_in + (IF in THEN t.amt ELSE 0),
         cor_out |-> e.cor_out + (IF out THEN t.amt ELSE 0),
         stake_tag |-> tag,
         sources |-> e.sources \cup src]

\* _compute_cor_flows on the transfers of one hash, in list order
RECURSIVE ComputeCorFlow(_, _)
ComputeCorFlow(e, legs) ==
    IF legs = <<>> THEN e
    ELSE ComputeCorFlow(AddCorLeg(e, Head(legs)), Tail(legs))

\* What _compute_eth_flows gives for a hash: no ETH flow, ETH spent, ETH
\* received, both, and ETH sent to or received from an address of
\* MY_ADDRESSES (lines 285-288, 324-327), in 1e-9 ETH.
EthFlowInputs ==
    {[eth_in |-> 0, eth_out |-> 0, sources |-> {}],
     [eth_in |-> 0, eth_out |-> 2600, sources |-> {}],
     [eth_in |-> 1500, eth_out |-> 0, sources |-> {}],
     [eth_in |-> 1500, eth_out |-> 2600, sources |-> {}],
     [eth_in |-> 0, eth_out |-> 2600, sources |-> {"internal_out", "internal"}],
     [eth_in |-> 1500, eth_out |-> 0, sources |-> {"internal_in", "internal"}]}

\* 0.05 in units of 1e-9
TaxRate == 50000000
\* (cor_in * 0.05) / 0.95 and cor_out * 0.05; the amounts of the model are
\* multiples of 1900, on which both are whole
BuyTaxOfNet(cor_in) == (cor_in * 5) \div 100
BuyTax(cor_in) == (cor_in * 5) \div 95
SellTax(cor_out) == (cor_out * 5) \div 100

Classified(type, tax_cor, tax_rate) ==
    [type |-> type, tax_cor |-> tax_cor, tax_rate |-> tax_rate]

\* _classify_trade with the heuristic buy and sell tests ahead of the stake
\* tags
ClassifyTradeBuyFirst(ef, cf) ==
    IF cf.cor_in > 0 /\ ef.eth_out > 0 /\ ef.eth_in = 0
    THEN Classified("buy", BuyTax(cf.cor_in), TaxRate)
    ELSE IF cf.cor_out > 0 /\ ef.eth_in > 0 /\ ef.eth_out = 0
    THEN Classified("sell", SellTax(cf.cor_out), TaxRate)
    ELSE IF cf.stake_tag = "stake" THEN Classified("stake", 0, 0)
    ELSE IF cf.stake_tag = "unstake" THEN Classified("unstake", 0, 0)
    ELSE Classified("transfer", 0, 0)

\* a classifier whose internal_transfer rule does not ask for a token flow
ClassifyTradeInternalAnyFlow(ef, cf) ==
    IF cf.stake_tag = "stake" THEN Classified("stake", 0, 0)
    ELSE IF cf.stake_tag = "unstake" THEN Classified("unstake", 0, 0)
    ELSE IF "internal_in" \in (ef.sources \cup cf.sources)
            \/ "internal_out" \in (ef.sources \cup cf.sources)
    THEN Classified("internal_transfer", 0, 0)
    ELSE IF "staking_reward" \in cf.sources /\ cf.cor_in > 0
    THEN Classified("staking_reward", 0, 0)
    ELSE IF cf.cor_in > 0 \/ cf.cor_out > 0 THEN Classified("transfer", 0, 0)
    ELSE IF ef.eth_in # 0 \/ ef.eth_out # 0 THEN Classified("eth_transfer", 0, 0)
    ELSE Classified("unknown", 0, 0)

\* _classify_trade (lines 425-480)
ClassifyTrade(ef, cf) ==
    LET eth_in == ef.eth_in
        eth_out == ef.eth_out
        cor_in == cf.cor_in
        cor_out == cf.cor_out
        sources == ef.sources \cup cf.sources
    IN  IF cf.stake_tag = "stake" THEN Classified("stake", 0, 0)
        ELSE IF cf.stake_tag = "unstake" THEN Classified("unstake", 0, 0)
        ELSE IF "staking_reward" \in sources /\ cor_in > 0 /\ eth_out = 0 /\ eth_in = 0
        THEN Classified("staking_reward", 0, 0)
        ELSE IF "node_reward" \in sources /\ cor_in > 0 /\ eth_out = 0 /\ eth_in = 0
        THEN Classified("node_reward", 0, 0)
        ELSE IF ("internal_in" \in sources \/ "internal_out" \in sources)
                /\ (cor_in > 0 \/ cor_out > 0)
        THEN Classified("internal_transfer", 0, 0)
        ELSE IF cor_in > 0 /\ eth_out > 0 /\ eth_in = 0
        THEN Classified("buy", BuyTax(cor_in), TaxRate)
        ELSE IF cor_out > 0 /\ eth_in > 0 /\ eth_out = 0
        THEN Classified("sell", SellTax(cor_out), TaxRate)
        ELSE IF cor_in > 0 /\ eth_in = 0 /\ eth_out = 0 /\ "incoming_external" \in sources
        THEN Classified("airdrop_or_other", 0, 0)
        ELSE IF cor_in > 0 \/ cor_out > 0 THEN Classified("transfer", 0, 0)
        ELSE IF eth_in # 0 \/ eth_out # 0 THEN Classified("eth_transfer", 0, 0)
        ELSE Classified("unknown", 0, 0)

\* One hash of one address: its token transfers and its ETH flow.
InitClassify ==
    /\ cor_legs \in LegSeqs
    /\ eth_flow \in EthFlowInputs
    /\ cor_flow = NoCorFlow
    /\ classified = NotClassified
    /\ RunIdle /\ OracleIdle /\ RateIdle /\ RowIdle /\ ClientIdle /\ LateIdle

\* cor_flows = _compute_cor_flows(token, addr)  (line 624)
ComputeFlows ==
    /\ classified.type = "pending"
    /\ cor_legs # <<>>
    /\ cor_flow' = ComputeCorFlow(NoCorFlow, cor_legs)
    /\ cor_legs' = <<>>
    /\ UNCHANGED <<eth_flow, classified>>
    /\ UNCHANGED <<coreVars, rowVars, clientVars, lateVars>>

\* trade_type, tax_cor, tax_rate = _classify_trade(ef, cf)  (line 652)
Classify ==
    /\ classified.type = "pending"
    /\ cor_legs = <<>>
    /\ classified' = ClassifyTrade(eth_flow, cor_flow)
    /\ UNCHANGED <<cor_legs, eth_flow, cor_flow>>
    /\ UNCHANGED <<coreVars, rowVars, clientVars, lateVars>>

NextClassify ==
    \/ ComputeFlows
    \/ Classify

SpecClassify == InitClassify /\ [][NextClassify]_vars

----------------------------------------------------------------------------
(* SpecRow: one iteration of the per-hash loop, from the flows to the row *)

\* In this part an amount (ETH, COR, USD) is an integer number of 1e-6; the
\* ETH price is in whole USD.  A quotient or product of floats is kept as
\* the exact fraction <<n, d>>, d > 0, in lowest terms.  A row field written
\* with round(x, k) is the integer number of 10^-k it holds.
RECURSIVE Gcd(_, _)
Gcd(a, b) == IF b = 0 THEN a ELSE Gcd(b, a % b)

Fr(n, d) == IF n = 0 THEN <<0, 1>> ELSE <<n \div Gcd(n, d), d \div Gcd(n, d)>>
FMul(a, b) == Fr(a[1] * b[1], a[2] * b[2])

\* n / d rounded to the nearest integer, ties to the even one
RoundQ(n, d) ==
    LET q == n \div d
        r == n % d
    IN  IF 2 * r < d THEN q
        ELSE IF 2 * r > d THEN q + 1
        ELSE IF q % 2 = 0 THEN q ELSE q + 1

\* round(x, 8), round(x, 6) and round(x, 2) of an amount
Places8(f) == RoundQ(f[1] * 100, f[2])
Places6(f) == RoundQ(f[1], f[2])
Places2(f) == RoundQ(f[1], f[2] * 10000)
\* round(x, 6) of a price in USD per COR
PricePlaces6(f) == RoundQ(f[1] * 1000000, f[2])

\* the truth value of a float
NonZero(f) == f[1] # 0

\* ef and cf of a hash (lines 629-639)
RowEthFlows ==
    {[eth_in |-> 0, eth_out |-> 0, gas_eth |-> 0, sources |-> {}],
     [eth_in |-> 0, eth_out |-> 3, gas_eth |-> 1, sources |-> {}],
     [eth_in |-> 2, eth_out |-> 0, gas_eth |-> 0, sources |-> {}]}

RowCorFlows ==
    {[cor_in |-> ci, cor_out |-> co, stake_tag |-> "none",
      sources |-> (IF ci > 0 THEN {"incoming_external"} ELSE {})
                  \cup (IF co > 0 THEN {"self_out"} ELSE {})] :
        ci \in {0, 95}, co \in {0, 100}}

\* What oracle.get_eth_price_usd_at_ts gives: a price and its source, the
\* sentinel, or an exception.
OracleAnswers ==
    {[raised |-> FALSE, price |-> 33, src |-> "coingecko"],
     [raised |-> FALSE, price |-> 33, src |-> "cache"],
     [raised |-> FALSE, price |-> 0, src |-> "unavailable"],
     [raised |-> TRUE, price |-> 0, src |-> "none"]}

\* An ERC-20 Transfer log of the block: whether it belongs to the hash of the
\* row, whether it has the three topics, sender, recipient and value.  The
\* parties are the indexed address, the router, the pool, the token contract
\* and the fee collector.
Log(mine, from, to, value) ==
    [tx_match |-> mine, topics |-> 3, from |-> from, to |-> to, value |-> value]

LogLists ==
    {<<>>,
     <<Log(FALSE, "pool", "router", 94), Log(FALSE, "router", "other", 94)>>,
     <<Log(TRUE, "pool", "router", 94)>>,
     <<Log(TRUE, "pool", "me", 95)>>,
     <<[tx_match |-> TRUE, topics |-> 1, from |-> "router", to |-> "me", value |-> 95]>>,
     <<Log(TRUE, "pool", "router", 94), Log(TRUE, "pool", "token", 5),
       Log(TRUE, "router", "me", 90), Log(TRUE, "router", "fee", 4)>>,
     <<Log(TRUE, "pool", "router", 94), Log(TRUE, "pool", "token", 5),
       Log(TRUE, "router", "me", 94)>>,
     <<Log(TRUE, "pool", "router", 99), Log(TRUE, "router", "me", 99)>>,
     <<Log(TRUE, "pool", "router", 99), Log(TRUE, "router", "me", 95),
       Log(TRUE, "router", "fee", 4)>>}

\* what client.get_logs does for the block of the row
LogOutcomes ==
    {[fetch |-> "raised", logs |-> <<>>]}
    \cup {[fetch |-> "ok", logs |-> l] : l \in LogLists}

RECURSIVE SumValues(_)
SumValues(ts) == IF ts = <<>> THEN 0 ELSE Head(ts).value + SumValues(Tail(ts))

\* _refine_buy_with_logs (lines 490-570) for the hash of the row, with what
\* get_logs did.
RefineBuy(outcome, block_num, eth_out_usd) ==
    LET transfers == SelectSeq(outcome.logs, LAMBDA lg : lg.tx_match /\ lg.topics >= 3)
        to_me == SelectSeq(transfers, LAMBDA t : t.to = "me")
        router_addr == to_me[1].from
        router_fee_cor ==
            SumValues(SelectSeq(transfers, LAMBDA t : t.from = router_addr /\ t.to # "me"))
        router_received_cor ==
            SumValues(SelectSeq(transfers, LAMBDA t : t.to = router_addr))
        actual_tax_cor == SumValues(SelectSeq(transfers, LAMBDA t : t.to = "token"))
        gross_from_pool_cor == router_received_cor + actual_tax_cor
        unit_price_usd == Fr(eth_out_usd, gross_from_pool_cor)
    IN  IF block_num = 0 THEN NoRefine
        ELSE IF outcome.fetch = "raised" THEN NoRefine
        ELSE IF outcome.logs = <<>> THEN NoRefine
        ELSE IF transfers = <<>> THEN NoRefine
        ELSE IF to_me = <<>> THEN NoRefine
        ELSE IF gross_from_pool_cor <= 0 THEN NoRefine
        ELSE [some |-> TRUE,
              router_fee_cor |-> router_fee_cor,
              router_received_cor |-> router_received_cor,
              actual_tax_cor |-> actual_tax_cor,
              gross_from_pool_cor |-> gross_from_pool_cor,
              unit_price_usd |-> unit_price_usd,
              tax_usd |-> FMul(Fr(actual_tax_cor, 1), unit_price_usd),
              router_fee_usd |-> FMul(Fr(router_fee_cor, 1), unit_price_usd)]

\* Lines 661-672 and 691-693: the unit price and the tax in USD of a buy or
\* a sell, from the 5% estimate.
FirstPass(loc) ==
    IF loc.trade_type = "buy" /\ loc.cf.cor_in > 0
    THEN LET gross_tokens_est == loc.cf.cor_in + loc.tax_cor
             unit == Fr(loc.eth_out_usd, gross_tokens_est)
         IN  IF gross_tokens_est > 0
             THEN [loc EXCEPT !.unit_price_usd = SomeF(unit),
                              !.tax_usd = FMul(Fr(loc.tax_cor, 1), unit)]
             ELSE loc
    ELSE IF loc.trade_type = "sell" /\ loc.cf.cor_out > 0
    THEN LET unit == Fr(loc.eth_in_usd, loc.cf.cor_out)
         IN  [loc EXCEPT !.unit_price_usd = SomeF(unit),
                         !.tax_usd = FMul(Fr(loc.tax_cor, 1), unit)]
    ELSE loc

\* the refinement of a buy whose estimates are zeroed when the logs give
\* nothing
ApplyRefineOrClear(loc, refine) ==
    IF refine.some
    THEN [loc EXCEPT !.tax_cor = refine.actual_tax_cor,
                     !.unit_price_usd = SomeF(refine.unit_price_usd),
                     !.tax_usd = refine.tax_usd]
    ELSE [loc EXCEPT !.tax_cor = 0, !.unit_price_usd = NoneF, !.tax_usd = <<0, 1>>]

\* Lines 679-689: the observed values replace the estimates; `x or y` takes
\* y when x is 0.0.
ApplyRefine(loc, refine) ==
    IF refine.some /\ refine.gross_from_pool_cor > 0
    THEN [loc EXCEPT
            !.unit_price_usd =
                SomeF(IF NonZero(refine.unit_price_usd) THEN refine.unit_price_usd
                      ELSE IF loc.unit_price_usd.some /\ NonZero(loc.unit_price_usd.val)
                           THEN loc.unit_price_usd.val
                           ELSE <<0, 1>>),
            !.tax_usd = IF NonZero(refine.tax_usd) THEN refine.tax_usd ELSE loc.tax_usd,
            !.router_fee_cor = refine.router_fee_cor,
            !.router_fee_usd = refine.router_fee_usd,
            !.cor_gross_from_pool = Some(refine.gross_from_pool_cor),
            !.tax_cor = refine.actual_tax_cor]
    ELSE loc

\* The row dictionary of lines 702-734, its columns of money and tokens.
BuildRow(loc) ==
    [built |-> TRUE,
     eth_usd |-> loc.eth_usd * 1000000,
     eth_in_usd |-> Places2(<<loc.eth_in_usd, 1>>),
     eth_out_usd |-> Places2(<<loc.eth_out_usd, 1>>),
     gas_fee_usd |-> Places2(<<loc.gas_usd, 1>>),
     cor_in |-> Places8(<<loc.cf.cor_in, 1>>),
     cor_out |-> Places8(<<loc.cf.cor_out, 1>>),
     trade_type |-> loc.trade_type,
     tax_rate |-> loc.tax_rate,
     tax_cor_est |-> Places8(<<loc.tax_cor, 1>>),
     tax_usd_est |-> Places6(loc.tax_usd),
     unit_price_usd |-> IF loc.unit_price_usd.some
                        THEN Some(PricePlaces6(loc.unit_price_usd.val)) ELSE None,
     price_source |-> loc.src,
     router_fee_cor |-> IF loc.router_fee_cor # 0
                        THEN Some(Places8(<<loc.router_fee_cor, 1>>)) ELSE None,
     router_fee_usd |-> IF loc.router_fee_cor # 0
                        THEN Some(Places6(loc.router_fee_usd)) ELSE None,
     cor_gross_from_pool |-> IF Truthy(loc.cor_gross_from_pool)
                             THEN Some(Places8(<<loc.cor_gross_from_pool.val, 1>>))
                             ELSE None]

\* The flows of the hash; ts and blk are those of the flows, 0 when neither
\* flow has them (lines 641-642).
InitRow ==
    /\ \E ef \in RowEthFlows, cf \in RowCorFlows, ts \in {0, 10}, blk \in {0, 1} :
          rb = [RowIdleLocals EXCEPT !.pc = "price", !.ef = ef, !.cf = cf,
                                     !.ts = ts, !.blk = blk]
    /\ row = NoRow
    /\ RunIdle /\ OracleIdle /\ RateIdle /\ ClassIdle /\ ClientIdle /\ LateIdle

\* Lines 644-650: the ETH price of the row; no timestamp and an exception of
\* the oracle both give (0.0, unavailable).
PriceStep ==
    /\ rb.pc = "price"
    /\ \E ans \in OracleAnswers :
          rb' = IF rb.ts = 0 \/ ans.raised
                THEN [rb EXCEPT !.pc = "classify", !.eth_usd = 0, !.src = "unavailable"]
                ELSE [rb EXCEPT !.pc = "classify", !.eth_usd = ans.price, !.src = ans.src]
    /\ UNCHANGED row
    /\ UNCHANGED <<coreVars, classVars, clientVars, lateVars>>

\* Lines 652-672 and 691-693: the trade type, the derived USD amounts and
\* the first-pass unit price and tax.
ClassifyStep ==
    /\ rb.pc = "classify"
    /\ LET c == ClassifyTrade(rb.ef, rb.cf)
           loc == [rb EXCEPT !.trade_type = c.type, !.tax_cor = c.tax_cor,
                             !.tax_rate = c.tax_rate,
                             !.eth_in_usd = rb.ef.eth_in * rb.eth_usd,
                             !.eth_out_usd = rb.ef.eth_out * rb.eth_usd,
                             !.gas_usd = rb.ef.gas_eth * rb.eth_usd,
                             !.net_usd = (rb.ef.eth_in - rb.ef.eth_out - rb.ef.gas_eth)
                                         * rb.eth_usd]
       IN  rb' = [FirstPass(loc) EXCEPT
                     !.pc = IF c.type = "buy" /\ rb.cf.cor_in > 0 THEN "refine" ELSE "emit"]
    /\ UNCHANGED row
    /\ UNCHANGED <<coreVars, classVars, clientVars, lateVars>>

\* Lines 674-689: the refinement of a buy; an exception of
\* _refine_buy_with_logs is caught and counts as None.
RefineStep ==
    /\ rb.pc = "refine"
    /\ \E outcome \in LogOutcomes :
          LET refine == RefineBuy(outcome, rb.blk, rb.eth_out_usd)
          IN  rb' = [ApplyRefine(rb, refine) EXCEPT
                        !.pc = "emit", !.outcome = outcome, !.refine = refine]
    /\ UNCHANGED row
    /\ UNCHANGED <<coreVars, classVars, clientVars, lateVars>>

\* Lines 702-736: the row is built and appended
AppendRow ==
    /\ rb.pc = "emit"
    /\ row' = BuildRow(rb)
    /\ rb' = [rb EXCEPT !.pc = "done"]
    /\ UNCHANGED <<coreVars, classVars, clientVars, lateVars>>

NextRow ==
    \/ PriceStep
    \/ ClassifyStep
    \/ RefineStep
    \/ AppendRow

SpecRow == InitRow /\ [][NextRow]_vars

----------------------------------------------------------------------------
(* SpecClient: endpoint calls of the chain-data client and requests of the
   price oracle, attempt by attempt *)

\* A string is the sequence of its characters where the code slices it.
\* The Transfer topic 0xddf252ad1be2..., its first twelve characters, and
\* another topic that begins with the same four bytes.
TransferTopic == <<"0", "x", "d", "d", "f", "2", "5", "2", "a", "d", "1", "b">>
OtherTopic == <<"0", "x", "d", "d", "f", "2", "5", "2", "a", "d", "9", "9">>
AnyWord == <<"a", "n", "y">>

\* str[:n]
Take(str, n) == SubSeq(str, 1, IF Len(str) < n THEN Len(str) ELSE n)

BlkReq(ts, closest) ==
    [NoReq EXCEPT !.ep = "blk", !.client = "etherscan", !.ts = ts, !.closest = closest]
AccountReq(ep, address, sb, eb) ==
    [NoReq EXCEPT !.ep = ep, !.client = "etherscan", !.address = address,
                  !.sb = sb, !.eb = eb]
TokenTxReq(contract, address, sb, eb) ==
    [NoReq EXCEPT !.ep = "tokentx", !.client = "etherscan", !.contract = contract,
                  !.address = address, !.sb = sb, !.eb = eb]
LogsReq(from_block, to_block, address, topic0) ==
    [NoReq EXCEPT !.ep = "logs", !.client = "etherscan", !.address = address,
                  !.sb = from_block, !.eb = to_block, !.topic0 = topic0]
PriceReq(ep) == [NoReq EXCEPT !.ep = ep, !.client = "oracle"]

\* the endpoint calls a client is asked for
EsRequests ==
    {AccountReq("txlist", "a1", 1, 9), AccountReq("txlist", "a1", 2, 9),
     AccountReq("txintern", "a1", 1, 9), TokenTxReq("tok", "a1", 1, 9),
     BlkReq(5, "after"), BlkReq(5, "before"),
     LogsReq(1, 1, "tok", TransferTopic), LogsReq(1, 1, "tok", OtherTopic),
     LogsReq(1, 1, "", <<>>)}

\* the three requests of a quote (eth_price_oracle.py lines 107, 128, 184)
OracleRequests == {PriceReq("cg_range"), PriceReq("cc_histominute"), PriceReq("cg_wide")}

\* The cache_key of an endpoint call (lines 167, 180, 193, 207, 229), its
\* parts in the order of the f-string; none for the oracle's requests.
CacheKeyOf(req) ==
    CASE req.ep = "blk" -> <<"blk_by_time", req.ts, req.closest>>
      [] req.ep = "txlist" -> <<"txlist", req.address, req.sb, req.eb>>
      [] req.ep = "txintern" -> <<"txintern", req.address, req.sb, req.eb>>
      [] req.ep = "tokentx" -> <<"tokentx", req.contract, req.address, req.sb, req.eb>>
      [] req.ep = "logs" ->
            <<"logs", IF req.address = "" THEN "any" ELSE req.address, req.sb, req.eb,
              Take(IF req.topic0 = <<>> THEN AnyWord ELSE req.topic0, 10)>>
      [] OTHER -> NoKey

EsKeys == {CacheKeyOf(r) : r \in EsRequests}

\* the retries of a request: the default of _get and the values the oracle
\* passes to _http_get
RetriesOf(req) ==
    CASE req.ep = "cg_range" -> CgRetries
      [] req.ep = "cc_histominute" -> CcRetries
      [] req.ep = "cg_wide" -> WideRetries
      [] OTHER -> EsRetries

\* The JSON bodies a provider sends with status 200: records, the explicit
\* no-records answer, and an error answer whose result is a text.
Body(status, message, kind, n) ==
    [status |-> status, message |-> message, kind |-> kind, n |-> n]

BodiesFor(req) ==
    CASE req.ep = "blk" ->
            {Body("1", "OK", "number", 7),
             Body("0", "NOTOK", "text", 0)}
      [] req.ep \in {"txlist", "txintern", "tokentx"} ->
            {Body("1", "OK", "list", 2),
             Body("0", "No transactions found", "list", 0),
             Body("0", "NOTOK", "text", 0)}
      [] req.ep = "logs" ->
            {Body("1", "OK", "list", 2),
             Body("0", "No records found", "list", 0),
             Body("0", "NOTOK", "text", 0)}
      [] OTHER -> {Body("", "", "prices", 1)}

\* the Retry-After header of a 429: none, a number of seconds, an HTTP date
NoHint == [kind |-> "none", secs |-> 0]
RetryHints == {NoHint, [kind |-> "secs", secs |-> 7], [kind |-> "date", secs |-> 0]}

\* What one attempt meets: a body, a 429, a failure of the request (timeout,
\* 5xx), or a 200 whose body is not JSON.
ResponsesFor(req) ==
    {[status |-> "ok", hint |-> NoHint, body |-> b] : b \in BodiesFor(req)}
    \cup {[status |-> "429", hint |-> h, body |-> NoBody] : h \in RetryHints}
    \cup {[status |-> st, hint |-> NoHint, body |-> NoBody] : st \in {"err", "malformed"}}

RECURSIVE Pow2(_)
Pow2(n) == IF n = 0 THEN 1 ELSE 2 * Pow2(n - 1)

\* The sleep after a failed attempt, in tenths of a second.
\* EtherscanClient._get: lines 146 and 160.
EsSleep(status, attempt, hint) ==
    IF status = "429" THEN 12 * Pow2(attempt) ELSE 10 * Pow2(attempt)

\* EthPriceOracle._http_get: lines 88-90 and 97; float() of a Retry-After
\* that is a date raises inside the try and ends in the except branch.
OracleSleep(status, attempt, hint) ==
    IF status = "429" /\ hint.kind = "secs" THEN 10 * hint.secs
    ELSE IF status = "429" /\ hint.kind = "none" THEN 15 * Pow2(attempt)
    ELSE 12 * Pow2(attempt)

SleepOf(req, status, attempt, hint) ==
    IF req.client = "oracle" THEN OracleSleep(status, attempt, hint)
    ELSE EsSleep(status, attempt, hint)

\* last_err after a failed attempt
LastErrOf(req, status, hint) ==
    IF req.client = "oracle" /\ status = "429" /\ hint.kind = "date" THEN "valueerror"
    ELSE status

\* the loop that does not count a 429 as an attempt
AfterFailureFree429(status, attempt) == IF status = "429" THEN attempt ELSE attempt + 1

\* `continue` and the end of the except branch: the next value of
\* `for attempt in range(retries)`
AfterFailure(status, attempt) == attempt + 1

NoEntry == [present |-> FALSE, readable |-> FALSE, body |-> NoBody, by |-> NoReq]

\* a cache that forgets what it is given
WriteEsCacheNowhere(cache, key, body, req) == cache

\* a cache that keeps only the bodies with status "1"
WriteEsCacheOkOnly(cache, key, body, req) ==
    IF key = NoKey \/ body.status # "1" THEN cache
    ELSE [cache EXCEPT ![key] =
              [present |-> TRUE, readable |-> TRUE, body |-> body, by |-> req]]

\* Lines 151-156: the body is written under the cache key; `by` keeps the
\* request the body answers. The cache directory is taken to be writable:
\* a write that fails is swallowed at lines 155-156 and is not modelled.
WriteEsCache(cache, key, body, req) ==
    IF key = NoKey THEN cache
    ELSE [cache EXCEPT ![key] =
              [present |-> TRUE, readable |-> TRUE, body |-> body, by |-> req]]

\* Lines 127-136: the cache lookup of _get and the locals of its loop.
StartGet(req, cache) ==
    LET key == CacheKeyOf(req)
        cached == key # NoKey /\ cache[key].present /\ cache[key].readable
    IN  [NoGet EXCEPT !.pc = IF cached THEN "returned" ELSE "loop",
                      !.req = req, !.key = key, !.retries = RetriesOf(req),
                      !.body = IF cached THEN cache[key].body ELSE NoBody,
                      !.cached_at_start = cached]

\* get_normal_txs, get_internal_txs, get_token_txs_for_contract (lines
\* 181-185, 194-198, 208-212) and get_logs (lines 232-236): the number of
\* records of the list returned. The message of an empty range is the only
\* one of BodiesFor that contains "No records".
RecordsOf(req, data) ==
    IF data.status = "1" THEN data.n
    ELSE IF req.ep # "logs" /\ data.message = "No transactions found" THEN 0
    ELSE IF req.ep = "logs" /\ data.status = "0" /\ data.message = "No records found" THEN 0
    ELSE IF data.kind = "list" THEN data.n
    ELSE 0

\* get_block_number_by_time, line 168: the answer is usable
BlockUsable(data) == data.status = "1" /\ data.message = "OK"

\* index_transactions_for_addresses, line 607: the end of the block range is
\* what the "after" lookup returns
EndBlock(o) == o.result

InitClient ==
    /\ es_cache \in
          {[k \in EsKeys |-> NoEntry],
           [k \in EsKeys |->
               IF k = CacheKeyOf(AccountReq("txlist", "a1", 1, 9))
               THEN [NoEntry EXCEPT !.present = TRUE] ELSE NoEntry]}
    /\ op = NoOp
    /\ g = NoGet
    /\ gets = 0
    /\ RunIdle /\ OracleIdle /\ RateIdle /\ ClassIdle /\ RowIdle /\ LateIdle

\* An endpoint method, or a request of the oracle, is called and enters
\* _get / _http_get.
CallEndpoint ==
    /\ op.pc \in {"idle", "done", "raised"}
    /\ gets < MaxGets
    /\ \E req \in EsRequests \cup OracleRequests :
          /\ op' = [NoOp EXCEPT !.pc = "get", !.req = req]
          /\ g' = StartGet(req, es_cache)
    /\ gets' = gets + 1
    /\ UNCHANGED <<es_cache, coreVars, classVars, rowVars, lateVars>>

\* One pass of the loop: the rate limiter, the request, and what follows
\* the response (tx_fetcher.py lines 137-160, eth_price_oracle.py 83-97).
Attempt ==
    /\ g.pc = "loop"
    /\ g.attempt < g.retries
    /\ \E resp \in ResponsesFor(g.req) :
          IF resp.status = "ok"
          THEN /\ es_cache' = WriteEsCache(es_cache, g.key, resp.body, g.req)
               /\ g' = [g EXCEPT !.pc = "returned", !.waits = @ + 1, !.net = @ + 1,
                                 !.body = resp.body,
                                 !.last = [attempt |-> g.attempt, status |-> "ok",
                                           hint |-> NoHint, slept |-> 0,
                                           wrote |-> es_cache' # es_cache]]
          ELSE /\ es_cache' = es_cache
               /\ g' = [g EXCEPT !.waits = @ + 1, !.net = @ + 1,
                                 !.attempt = AfterFailure(resp.status, g.attempt),
                                 !.last_err = LastErrOf(g.req, resp.status, resp.hint),
                                 !.last = [attempt |-> g.attempt, status |-> resp.status,
                                           hint |-> resp.hint,
                                           slept |-> SleepOf(g.req, resp.status,
                                                             g.attempt, resp.hint),
                                           wrote |-> FALSE]]
    /\ UNCHANGED <<op, gets, coreVars, classVars, rowVars, lateVars>>

\* The loop is exhausted: RuntimeError with last_err (lines 162 and 98).
Raise ==
    /\ g.pc = "loop"
    /\ g.attempt >= g.retries
    /\ g' = [g EXCEPT !.pc = "raised"]
    /\ op' = [op EXCEPT !.pc = "raised"]
    /\ UNCHANGED <<es_cache, gets, coreVars, classVars, rowVars, lateVars>>

\* The endpoint method turns the body into its return value; an "after"
\* block lookup without a usable answer calls itself with "before"
\* (lines 168-172).
FinishEndpoint ==
    /\ op.pc = "get"
    /\ g.pc = "returned"
    /\ IF op.req.ep = "blk"
       THEN IF BlockUsable(g.body)
            THEN /\ op' = [op EXCEPT !.pc = "done", !.body = g.body, !.result = g.body.n]
                 /\ g' = g
            ELSE IF g.req.closest = "after"
            THEN /\ op' = [op EXCEPT !.fell_back = TRUE]
                 /\ g' = StartGet(BlkReq(g.req.ts, "before"), es_cache)
            ELSE /\ op' = [op EXCEPT !.pc = "done", !.body = g.body, !.result = 0]
                 /\ g' = g
       ELSE IF op.req.client = "etherscan"
       THEN /\ op' = [op EXCEPT !.pc = "done", !.body = g.body,
                                !.result = RecordsOf(op.req, g.body)]
            /\ g' = g
       ELSE /\ op' = [op EXCEPT !.pc = "done", !.body = g.body, !.result = g.body.n]
            /\ g' = g
    /\ UNCHANGED <<es_cache, gets, coreVars, classVars, rowVars, lateVars>>

NextClient == CallEndpoint \/ Attempt \/ Raise \/ FinishEndpoint

SpecClient == InitClient /\ [][NextClient]_vars

----------------------------------------------------------------------------
(* SpecFlows: one transaction hash of one address, from the fetched records
   to its row in the replay *)

MaxEthLegs == 2     \* normal transactions of one hash

\* a value and a fee (gasUsed * gasPrice / 1e18), in 1e-9 ETH
EthRecord(from, to, value, gas) ==
    [from |-> from, to |-> to, value |-> value, gas |-> gas]

\* txlist returns the transactions the address sends or receives; the one
\* of value 0 is a call of a contract.
NormalRecords ==
    {EthRecord("me", "other", 2600, 700), EthRecord("me", "other", 0, 700),
     EthRecord("me", "mine", 2600, 700), EthRecord("other", "me", 1500, 700),
     EthRecord("mine", "me", 1500, 700)}

\* txlistinternal: value transfers made by contracts; the records carry gas
\* fields that the code does not read
InternalRecords ==
    {EthRecord("other", "me", 1500, 700), EthRecord("me", "other", 2600, 700),
     EthRecord("mine", "me", 1500, 0)}

EthLegInputs ==
    {[normal |-> n, internals |-> i] :
        n \in UNION {[1..k -> NormalRecords] : k \in 0..MaxEthLegs},
        i \in UNION {[1..k -> InternalRecords] : k \in 0..1}}

\* the transfer of a reward: 100 units of 1e-6 COR, in 1e-9 COR
RewardLeg == [from |-> "rewards", to |-> "me", amt |-> 100000]

\* the token transfers of the hash: none, or one
FlowTokenLegs ==
    {<<>>}
    \cup {<<RewardLeg>>,
          <<[from |-> "node", to |-> "me", amt |-> 1900]>>,
          <<[from |-> "other", to |-> "me", amt |-> 1900]>>,
          <<[from |-> "mine", to |-> "me", amt |-> 1900]>>,
          <<[from |-> "me", to |-> "other", amt |-> 1900]>>,
          <<[from |-> "me", to |-> "pool", amt |-> 1900]>>}

\* the default of lines 629-633 and of the setdefault of lines 272-277
DefaultEthFlow == [eth_in |-> 0, eth_out |-> 0, gas_eth |-> 0, sources |-> {}]

\* the tags of lines 286-289 and 329-332
InternalTags(t) ==
    (IF t.from = "me" /\ t.to \in MyAddresses /\ t.to # "me"
     THEN {"internal_out", "internal"} ELSE {})
    \cup (IF t.to = "me" /\ t.from \in MyAddresses /\ t.from # "me"
          THEN {"internal_in", "internal"} ELSE {})

\* a loop over the normal transactions that charges the fee to both ends
AddNormalLegGasBothEnds(e, t) ==
    [eth_in |-> e.eth_in + (IF t.from # "me" /\ t.to = "me" THEN t.value ELSE 0),
     eth_out |-> e.eth_out + (IF t.from = "me" THEN t.value ELSE 0),
     gas_eth |-> e.gas_eth + (IF t.from = "me" \/ t.to = "me" THEN t.gas ELSE 0),
     sources |-> e.sources \cup InternalTags(t)]

\* One iteration of the loop over the normal transactions (lines 279-289)
AddNormalLeg(e, t) ==
    [eth_in |-> e.eth_in + (IF t.from # "me" /\ t.to = "me" THEN t.value ELSE 0),
     eth_out |-> e.eth_out + (IF t.from = "me" THEN t.value ELSE 0),
     gas_eth |-> e.gas_eth + (IF t.from = "me" THEN t.gas ELSE 0),
     sources |-> e.sources \cup InternalTags(t)]

\* One iteration of the loop over the internal transactions (lines 322-332)
AddInternalLeg(e, t) ==
    [eth_in |-> e.eth_in + (IF t.to = "me" THEN t.value ELSE 0),
     eth_out |-> e.eth_out + (IF t.to # "me" /\ t.from = "me" THEN t.value ELSE 0),
     gas_eth |-> e.gas_eth,
     sources |-> e.sources \cup InternalTags(t)]

RECURSIVE AddNormalLegs(_, _)
AddNormalLegs(e, legs) ==
    IF legs = <<>> THEN e
    ELSE AddNormalLegs(AddNormalLeg(e, Head(legs)), Tail(legs))

RECURSIVE AddInternalLegs(_, _)
AddInternalLegs(e, legs) ==
    IF legs = <<>> THEN e
    ELSE AddInternalLegs(AddInternalLeg(e, Head(legs)), Tail(legs))

\* _compute_eth_flows on the records of one hash: the normal transactions,
\* then the internal ones (lines 256, 304)
ComputeEthFlow(legs) ==
    AddInternalLegs(AddNormalLegs(DefaultEthFlow, legs.normal), legs.internals)

\* the row of an earlier hash of the address, at block 1
EarlierRow ==
    MakeRow(1, 1, [block |-> 1, timestamp |-> 1,
                   flow |-> Flow("transfer", 800, 0, <<1500, 0, 0>>)])

\* The address is 1, "me" in the records; its fetches have returned (lines
\* 619-621) and the loop of line 628 is at the hash of the records, which
\* is in block 2.
InitFlows ==
    /\ pc = "flows"
    /\ addr_set = {1} /\ todo = {} /\ cur = 1 /\ fetch_i = 3 /\ indexed = {}
    /\ raw_rows \in {<<>>, <<EarlierRow>>}
    /\ state_by_addr = [a \in Addrs |-> ZeroState]
    /\ final_rows = <<>> /\ idx = 0
    /\ returned = [status |-> "pending", rows |-> <<>>]
    /\ eth_legs \in EthLegInputs
    /\ cor_legs \in FlowTokenLegs
    /\ eth_flow = DefaultEthFlow
    /\ cor_flow = NoCorFlow
    /\ classified = NotClassified
    /\ quotes = <<>> /\ wk = <<>> /\ shared = NoShared
    /\ OracleIdle /\ RateIdle /\ RowIdle /\ ClientIdle

\* Lines 623-639: both flows of the hash, the defaults for a hash without
\* records of one kind
ComputeHashFlows ==
    /\ pc = "flows"
    /\ eth_flow' = ComputeEthFlow(eth_legs)
    /\ cor_flow' = ComputeCorFlow(NoCorFlow, cor_legs)
    /\ pc' = "classify"
    /\ UNCHANGED <<addr_set, todo, cur, fetch_i, indexed, raw_rows, state_by_addr,
                   final_rows, idx, returned>>
    /\ UNCHANGED <<cor_legs, classified, eth_legs, quotes, wk, shared>>
    /\ UNCHANGED <<oracleVars, rateVars, rowVars, clientVars>>

\* Line 652
ClassifyHash ==
    /\ pc = "classify"
    /\ classified' = ClassifyTrade(eth_flow, cor_flow)
    /\ pc' = "row"
    /\ UNCHANGED <<addr_set, todo, cur, fetch_i, indexed, raw_rows, state_by_addr,
                   final_rows, idx, returned>>
    /\ UNCHANGED <<cor_legs, eth_flow, cor_flow, eth_legs, quotes, wk, shared>>
    /\ UNCHANGED <<oracleVars, rateVars, rowVars, clientVars>>

\* Lines 702-736: the row of the hash
AppendHashRow ==
    /\ pc = "row"
    /\ raw_rows' =
          Append(raw_rows,
                 MakeRow(cur, Len(RowsOf(raw_rows, cur)) + 1,
                         [block |-> 2, timestamp |-> 2,
                          flow |-> Flow(classified.type, cor_flow.cor_in, cor_flow.cor_out,
                                        <<eth_flow.eth_in, eth_flow.eth_out,
                                          eth_flow.gas_eth>>)]))
    /\ pc' = "rows"
    /\ UNCHANGED <<addr_set, todo, cur, fetch_i, indexed, state_by_addr,
                   final_rows, idx, returned>>
    /\ UNCHANGED <<classVars, lateVars>>
    /\ UNCHANGED <<oracleVars, rateVars, rowVars, clientVars>>

NextFlows ==
    \/ ComputeHashFlows
    \/ ClassifyHash
    \/ AppendHashRow
    \/ EndAddr
    \/ SortStep
    \/ ReplayRow
    \/ Return

SpecFlows == InitFlows /\ [][NextFlows]_vars

----------------------------------------------------------------------------
(* SpecReplay: the sort and the replay of lines 738-780 on rows given in any
   order *)

MaxReplayRows == 2  \* rows given to the sort

\* block, timestamp and flows of a row, one for each kind of trade type
ReplayInputs ==
    {[block |-> 1, timestamp |-> 1, flow |-> Flow("transfer", 800, 0, <<0, 0, 0>>)],
     [block |-> 1, timestamp |-> 1, flow |-> Flow("stake", 0, 800, <<0, 0, 700>>)],
     [block |-> 1, timestamp |-> 1, flow |-> Flow("unstake", 404, 0, <<0, 0, 700>>)],
     [block |-> 2, timestamp |-> 1, flow |-> Flow("buy", 1900, 0, <<0, 2600, 700>>)],
     [block |-> 1, timestamp |-> 2, flow |-> Flow("sell", 0, 404, <<1500, 0, 700>>)],
     [block |-> 2, timestamp |-> 2, flow |-> Flow("staking_reward", 404, 0, <<0, 0, 0>>)],
     [block |-> 1, timestamp |-> 1, flow |-> Flow("eth_transfer", 0, 0, <<1500, 0, 0>>)]}

ReplayRowUniverse ==
    {MakeRow(a, h, inp) : a \in Addrs, h \in {1, 2}, inp \in ReplayInputs}

\* raw_rows holds one row for each (address, hash) (lines 616, 628)
ReplayLists ==
    UNION {{rows \in [1..n -> ReplayRowUniverse] :
               \A i, j \in 1..n :
                   (i # j) => (rows[i].address # rows[j].address
                               \/ rows[i].tx_hash # rows[j].tx_hash)} :
           n \in 0..MaxReplayRows}

\* The loop of lines 744-778 on the rows left: the output rows.
RECURSIVE ReplayFrom(_, _, _)
ReplayFrom(states, rows, out) ==
    IF rows = <<>> THEN out
    ELSE LET r == Head(rows)
             st == ApplyRow(states[r.address], r)
         IN  ReplayFrom([states EXCEPT ![r.address] = st], Tail(rows),
                        Append(out, OutRow(r, st)))

\* Lines 740-780 as a function of raw_rows
SortAndReplay(rows) ==
    ReplayFrom([a \in Addrs |-> ZeroState], SortRows(rows), <<>>)

\* The per-address loop has ended and left its rows, in any order.
InitReplay ==
    /\ pc = "loop"
    /\ addr_set = Addrs /\ todo = {} /\ cur = 0 /\ fetch_i = 0 /\ indexed = Addrs
    /\ raw_rows \in ReplayLists
    /\ state_by_addr = [a \in Addrs |-> ZeroState]
    /\ final_rows = <<>> /\ idx = 0
    /\ returned = [status |-> "pending", rows |-> <<>>]
    /\ OracleIdle /\ RateIdle /\ ExtIdle

NextReplay ==
    \/ SortStep
    \/ ReplayRow
    \/ Return

SpecReplay == InitReplay /\ [][NextReplay]_vars

----------------------------------------------------------------------------
(* SpecLoop: one call of index_transactions_for_addresses with the price
   lookup of every row *)

\* block, timestamp and flows of a hash; a hash whose records carry no
\* timestamp has ts = 0 (line 641)
LoopInputs ==
    {[block |-> 1, timestamp |-> 1, flow |-> Flow("transfer", 800, 0, <<0, 0, 0>>)],
     [block |-> 2, timestamp |-> 2, flow |-> Flow("eth_transfer", 0, 0, <<0, 2600, 700>>)],
     [block |-> 0, timestamp |-> 0, flow |-> Flow("transfer", 0, 404, <<0, 0, 0>>)]}

\* a price lookup without the try of line 647
PriceOfUnguarded(ts, ans) ==
    IF ts = 0 THEN [raised |-> FALSE, eth_usd |-> 0, src |-> "unavailable"]
    ELSE [raised |-> ans.raised, eth_usd |-> ans.price, src |-> ans.src]

\* Lines 645-650: eth_usd and src of a row, and whether an exception leaves
\* the lookup
PriceOf(ts, ans) ==
    IF ts = 0 \/ ans.raised
    THEN [raised |-> FALSE, eth_usd |-> 0, src |-> "unavailable"]
    ELSE [raised |-> FALSE, eth_usd |-> ans.price, src |-> ans.src]

\* the row of MakeRow with its columns eth_usd (in 1e-6 USD) and
\* price_source (lines 713, 727)
PricedRow(addr, h, inp, px) ==
    MakeRow(addr, h, inp) @@ [eth_usd |-> px.eth_usd * 1000000, price_source |-> px.src]

InitLoop ==
    /\ InitRun
    /\ OracleIdle /\ RateIdle /\ ExtIdle

\* One iteration of the loop of line 628: the price lookup of the hash and
\* its row.  An exception that leaves the lookup leaves the run.
ProducePricedRow ==
    /\ pc = "rows"
    /\ Len(raw_rows) < MaxRows
    /\ \E inp \in LoopInputs, ans \in OracleAnswers :
          LET h == Len(RowsOf(raw_rows, cur)) + 1
              px == PriceOf(inp.timestamp, ans)
          IN  /\ quotes' = Append(quotes, [address |-> cur, tx_hash |-> h,
                                           ts |-> inp.timestamp, answer |-> ans])
              /\ IF px.raised
                 THEN /\ pc' = "raised"
                      /\ returned' = [status |-> "raised", rows |-> <<>>]
                      /\ raw_rows' = raw_rows
                 ELSE /\ pc' = pc
                      /\ returned' = returned
                      /\ raw_rows' = Append(raw_rows, PricedRow(cur, h, inp, px))
    /\ UNCHANGED <<addr_set, todo, cur, fetch_i, indexed, state_by_addr, final_rows, idx>>
    /\ UNCHANGED <<eth_legs, wk, shared>>
    /\ UNCHANGED <<oracleVars, rateVars, classVars, rowVars, clientVars>>

NextLoop ==
    \/ NextAddr
    \/ Fetch
    \/ ProducePricedRow
    \/ EndAddr
    \/ SortStep
    \/ ReplayRow
    \/ Return

SpecLoop == InitLoop /\ [][NextLoop]_vars

----------------------------------------------------------------------------
(* SpecRace: two workers that ask for the same cache key at the same time,
   on the chain-data cache (tx_fetcher._get) or on the price cache
   (eth_price_oracle._get_eth_price_fiat_at_ts) *)

RaceWorkers == {1, 2}

\* timestamps of quote calls, all of one 5-minute bucket
RaceTimestamps == {10, 200}

\* the request both workers of the chain-data race make
RaceRequest == AccountReq("txlist", "a1", 1, 9)

\* the minute prices the providers hold: sample time and price
MarketSamples ==
    <<[t |-> 0, px |-> 7], [t |-> 180, px |-> 8], [t |-> 240, px |-> 9]>>

AbsDiff(a, b) == IF a < b THEN b - a ELSE a - b

\* eth_price_oracle.py lines 112-119 and 135-142: the first sample of the
\* smallest distance to center_ts
RECURSIVE NearestFrom(_, _, _, _, _)
NearestFrom(samples, center_ts, i, min_delta, nearest) ==
    IF i > Len(samples) THEN nearest
    ELSE LET d == AbsDiff(samples[i].t, center_ts)
         IN  IF d < min_delta /\ samples[i].px > 0
             THEN NearestFrom(samples, center_ts, i + 1, d, samples[i].px)
             ELSE NearestFrom(samples, center_ts, i + 1, min_delta, nearest)

Nearest(samples, center_ts) == NearestFrom(samples, center_ts, 1, 1000000000, 0)

\* line 128: histominute gives the samples that end at toTs
SamplesUpTo(samples, ts) == SelectSeq(samples, LAMBDA x : x.t <= ts)

\* lines 187-190: vals[len(vals) // 2] of the sorted prices (the samples
\* are in rising order of price)
MedianOf(samples) == samples[(Len(samples) \div 2) + 1].px

\* which provider answers a quote (lines 161-197); "raised" is the failure
\* of the request of line 172, which leaves the call
QuotePaths == {"coingecko", "cryptocompare", "coingecko_median", "unavailable", "raised"}

\* the price a quote of ts gets on a path
PathPrice(path, ts) ==
    CASE path = "coingecko" -> Nearest(MarketSamples, ts)
      [] path = "cryptocompare" -> Nearest(SamplesUpTo(MarketSamples, ts), ts)
      [] path = "coingecko_median" -> MedianOf(MarketSamples)
      [] OTHER -> 0

\* a worker before its call
RaceWorker(kind, ts) ==
    [kind |-> kind, ts |-> ts, pc |-> "start", missed |-> FALSE, raised |-> FALSE,
     body |-> NoBody, price |-> 0, src |-> "", wrote |-> FALSE, written |-> NoShared]

\* the content of the file of a chain-data body (tx_fetcher.py line 154)
ChainFile(body) == [NoShared EXCEPT !.present = TRUE, !.body = body]

\* the content of a price file (eth_price_oracle.py lines 72-77)
PriceFile(bucket_ts, price, source, now) ==
    [NoShared EXCEPT !.present = TRUE, !.ts_bucket = bucket_ts, !.price = price,
                     !.source = source, !.fetched_at = now]

InitRace ==
    /\ \E kind \in {"chain", "price"} :
          \E tss \in [RaceWorkers -> IF kind = "price" THEN RaceTimestamps ELSE {0}] :
              wk = [w \in RaceWorkers |-> RaceWorker(kind, tss[w])]
    /\ shared = NoShared
    /\ eth_legs = NoEthLegs /\ quotes = <<>>
    /\ RunIdle /\ OracleIdle /\ RateIdle
    /\ ClassIdle /\ RowIdle /\ ClientIdle

RaceFrame ==
    /\ UNCHANGED <<eth_legs, quotes>>
    /\ UNCHANGED <<runVars, oracleVars, classVars, rowVars, clientVars>>
    /\ UNCHANGED <<rl_last, es_last, lock, tpc, twake, grants>>

\* tx_fetcher.py lines 127-135 and eth_price_oracle.py lines 156-159: the
\* worker looks for the file of its key
RaceLookup(w) ==
    /\ wk[w].pc = "start"
    /\ LET hit == IF wk[w].kind = "chain" THEN shared.present
                  ELSE shared.present /\ shared.price # 0
       IN  wk' = [wk EXCEPT ![w].pc = IF hit THEN "done" ELSE "fetch",
                            ![w].missed = ~hit,
                            ![w].body = IF hit THEN shared.body ELSE NoBody,
                            ![w].price = IF hit THEN shared.price ELSE 0,
                            ![w].src = IF hit /\ wk[w].kind = "price" THEN "cache" ELSE ""]
    /\ UNCHANGED <<shared, clock>>
    /\ RaceFrame

\* tx_fetcher.py lines 138-150 and eth_price_oracle.py lines 161-195: the
\* requests of the worker, up to the answer it will write
RaceFetch(w) ==
    /\ wk[w].pc = "fetch"
    /\ \/ /\ wk[w].kind = "chain"
          /\ \E b \in BodiesFor(RaceRequest) :
                wk' = [wk EXCEPT ![w].pc = "write", ![w].body = b]
       \/ /\ wk[w].kind = "chain"
          /\ wk' = [wk EXCEPT ![w].pc = "done", ![w].raised = TRUE]
       \/ /\ wk[w].kind = "price"
          /\ \E path \in QuotePaths :
                wk' = IF path = "raised"
                      THEN [wk EXCEPT ![w].pc = "done", ![w].raised = TRUE]
                      ELSE [wk EXCEPT ![w].pc = "write", ![w].src = path,
                                      ![w].price = PathPrice(path, wk[w].ts)]
    /\ UNCHANGED <<shared, clock>>
    /\ RaceFrame

\* tx_fetcher.py lines 151-157 and eth_price_oracle.py lines 67-79: the
\* worker writes the file of its key, or the write fails and the failure is
\* swallowed
RaceWrite(w) ==
    /\ wk[w].pc = "write"
    /\ LET file == IF wk[w].kind = "chain" THEN ChainFile(wk[w].body)
                   ELSE PriceFile(Bucket5Min(wk[w].ts), wk[w].price, wk[w].src, clock)
       IN  \/ /\ shared' = file
              /\ wk' = [wk EXCEPT ![w].pc = "done", ![w].wrote = TRUE,
                                  ![w].written = file]
           \/ /\ shared' = shared
              /\ wk' = [wk EXCEPT ![w].pc = "done"]
    /\ UNCHANGED clock
    /\ RaceFrame

NextRace ==
    \/ \E w \in RaceWorkers : RaceLookup(w)
    \/ \E w \in RaceWorkers : RaceFetch(w)
    \/ \E w \in RaceWorkers : RaceWrite(w)
    \/ Tick

SpecRace == InitRace /\ [][NextRace]_vars

----------------------------------------------------------------------------
(* Claims about the run *)

RunEnded == pc \in {"done", "raised"}

\* cor_owned_after of the row before row i of the same address, 0 if none
PrevOwned(rows, i) ==
    LET prior == {j \in 1..(i - 1) : rows[j].address = rows[i].address}
    IN  IF prior = {} THEN 0
        ELSE rows[CHOOSE j \in prior : \A k \in prior : k <= j].cor_owned_after

\* C1: on every output row of the replay, cor_owned_after equals
\* cor_wallet_after plus cor_staked_after to within 1e-9 (one unit).
C1_OwnedIsWalletPlusStaked ==
    \A i \in 1..Len(final_rows) :
        LET r == final_rows[i]
            d == r.cor_owned_after - (r.cor_wallet_after + r.cor_staked_after)
        IN  d \in -1..1

C3_SiblingsSurviveFailure ==
    RunEnded =>
        \A a \in indexed :
            \A i \in 1..Len(raw_rows) :
                raw_rows[i].address = a =>
                    /\ returned.status = "rows"
                    /\ \E j \in 1..Len(returned.rows) :
                          /\ returned.rows[j].address = a
                          /\ returned.rows[j].tx_hash = raw_rows[i].tx_hash

\* r1 comes before r2 in (block, timestamp, tx hash) order
LedgerBefore(r1, r2) ==
    \/ r1.block < r2.block
    \/ r1.block = r2.block /\ r1.timestamp < r2.timestamp
    \/ r1.block = r2.block /\ r1.timestamp = r2.timestamp /\ r1.tx_hash < r2.tx_hash

\* C10: the rows of one address are applied in ascending (block, timestamp,
\* tx hash) order: every applied row comes before every row of its address
\* applied later, and before every row of its address still to be applied.
C10_ReplayInLedgerOrder ==
    /\ \A i, j \in 1..Len(final_rows) :
          (i < j /\ final_rows[i].address = final_rows[j].address)
              => LedgerBefore(final_rows[i], final_rows[j])
    /\ pc = "replay" =>
          \A i \in 1..Len(final_rows), k \in idx..Len(raw_rows) :
              final_rows[i].address = raw_rows[k].address
                  => LedgerBefore(final_rows[i], raw_rows[k])

\* C10 happens: the run has replayed two rows of one address in the
\* opposite of the order they were produced in (rows of an address are
\* produced by ascending hash).
C10_Witness ==
    /\ pc = "done"
    /\ \E i, j \in 1..Len(final_rows) :
          /\ i < j
          /\ final_rows[i].address = final_rows[j].address
          /\ final_rows[i].tx_hash > final_rows[j].tx_hash

----------------------------------------------------------------------------
(* Claims about the price oracle *)

\* C4: two successive quote calls for the same bucket and currency both
\* return the same price, and at most one of the two goes to the network
\* (the retries and fallbacks of one resolution count as one fetch).
C4_CacheIdempotence ==
    (CallDone(prev_call) /\ CallDone(last_call) /\ prev_call.key = last_call.key)
        => /\ prev_call.stage = "returned"
           /\ last_call.stage = "returned"
           /\ prev_call.price = last_call.price
           /\ ~(prev_call.fetches > 0 /\ last_call.fetches > 0)

\* C5: the cache entry of a (bucket, currency) is written at most once.
C5_WriteOncePerBucket ==
    \A k \in CacheKeys : pwrites[k] <= 1

\* C6: a quote call that ends without any path having given a price has
\* returned (0.0, unavailable) and left the sentinel in the cache; it has not
\* raised.
C6_SentinelWhenAllFail ==
    (CallDone(last_call) /\ last_call.src \notin {"cache", "coingecko", "cryptocompare", "coingecko_median"})
        => /\ last_call.stage = "returned"
           /\ last_call.price = 0
           /\ last_call.src = "unavailable"
           /\ pcache[last_call.key] = [present |-> TRUE, price |-> 0, source |-> "unavailable"]

\* C7: a quote call that finds the unavailable sentinel cached for its
\* bucket and currency issues no network request and returns from the cache.
C7_SentinelStopsRefetch ==
    last_call.sentinel_at_start
        => /\ last_call.fetches = 0
           /\ CallDone(last_call) =>
                  (last_call.stage = "returned" /\ last_call.src = "cache")

----------------------------------------------------------------------------
(* Claims about rate limiting *)

\* C8: any two consecutive outbound requests of an indexing run, to the
\* chain-data provider and to the price providers alike, are granted at
\* least 1 / max_rps apart.
C8_OneSharedGate ==
    \A i \in 1..(Len(grants) - 1) :
        grants[i + 1].at - grants[i].at >= MinInterval

\* C9: on one RateLimiter, successive grants are at least 1 / max_rps apart
\* whatever the threads and their interleaving, and no two grants fall on
\* the same instant.
C9_GrantsSpaced ==
    /\ \A i \in 1..(Len(grants) - 1) :
          grants[i + 1].at - grants[i].at >= MinInterval
    /\ \A i, j \in 1..Len(grants) :
          i # j => grants[i].at # grants[j].at

\* C9 happens: two different threads were granted one after the other, the
\* second exactly 1 / max_rps after the first.
C9_Witness ==
    \E i \in 1..(Len(grants) - 1) :
        /\ grants[i].by # grants[i + 1].by
        /\ grants[i + 1].at - grants[i].at = MinInterval

----------------------------------------------------------------------------
(* Claims about the classifier *)

\* The rule list of the specification, in its order: the guard of rule i.
SpecRuleHolds(i, ef, cf) ==
    LET tags == ef.sources \cup cf.sources
        noEth == ef.eth_in = 0 /\ ef.eth_out = 0
        anyTok == cf.cor_in > 0 \/ cf.cor_out > 0
    IN  CASE i = 1 -> cf.stake_tag = "stake"
          [] i = 2 -> cf.stake_tag = "unstake"
          [] i = 3 -> "staking_reward" \in tags /\ cf.cor_in > 0 /\ noEth
          [] i = 4 -> "node_reward" \in tags /\ cf.cor_in > 0 /\ noEth
          [] i = 5 -> tags \cap {"internal", "internal_in", "internal_out"} # {} /\ anyTok
          [] i = 6 -> cf.cor_in > 0 /\ ef.eth_out > 0 /\ ef.eth_in = 0
          [] i = 7 -> cf.cor_out > 0 /\ ef.eth_in > 0 /\ ef.eth_out = 0
          [] i = 8 -> cf.cor_in > 0 /\ noEth /\ "incoming_external" \in tags
          [] i = 9 -> anyTok
          [] i = 10 -> ~noEth /\ ~anyTok
          [] i = 11 -> TRUE

SpecRuleType ==
    <<"stake", "unstake", "staking_reward", "node_reward", "internal_transfer",
      "buy", "sell", "airdrop_or_other", "transfer", "eth_transfer", "unknown">>

\* first match wins
SpecClassification(ef, cf) ==
    LET i == CHOOSE k \in 1..11 :
                 /\ SpecRuleHolds(k, ef, cf)
                 /\ \A j \in 1..(k - 1) : ~SpecRuleHolds(j, ef, cf)
    IN  [type |-> SpecRuleType[i],
         tax_cor |-> IF i = 6 THEN (cf.cor_in * 5) \div 95
                     ELSE IF i = 7 THEN (cf.cor_out * 5) \div 100 ELSE 0,
         tax_rate |-> IF i \in {6, 7} THEN 50000000 ELSE 0]

\* C11: what _classify_trade returns for the flows of a hash is what the
\* first matching rule of the specification's eleven gives: type, tax
\* estimate and tax rate.
C11_ClassifierIsRuleList ==
    classified.type # "pending"
        => classified = SpecClassification(eth_flow, cor_flow)

\* C11 happens: a flow tagged stake that received tokens and spent ETH, the
\* shape of a buy, has been classified stake.
C11_Witness ==
    /\ classified.type = "stake"
    /\ cor_flow.stake_tag = "stake" /\ cor_flow.cor_in > 0
    /\ eth_flow.eth_out > 0 /\ eth_flow.eth_in = 0

----------------------------------------------------------------------------
(* Claims about the row of a buy *)

\* the first-pass values of the row: the locals before any refinement
FirstPassOf(loc) ==
    LET c == ClassifyTrade(loc.ef, loc.cf)
    IN  FirstPass([loc EXCEPT !.tax_cor = c.tax_cor, !.unit_price_usd = NoneF,
                              !.tax_usd = <<0, 1>>])

\* C12: on the row of a buy whose refinement succeeded, the tax-token field
\* is the actual tax of the logs, the unit price is the USD spent over the
\* gross from the pool, and tax and router fee in USD are the actual tax and
\* the router fee at that unit price (a zero router fee may be left out).
C12_RefinedRowUsesLogs ==
    (row.built /\ row.trade_type = "buy" /\ rb.refine.some) =>
        LET rf == rb.refine
        IN  /\ row.tax_cor_est = Places8(<<rf.actual_tax_cor, 1>>)
            /\ row.unit_price_usd =
                   Some(PricePlaces6(Fr(rb.eth_out_usd, rf.gross_from_pool_cor)))
            /\ row.tax_usd_est =
                   Places6(Fr(rf.actual_tax_cor * rb.eth_out_usd, rf.gross_from_pool_cor))
            /\ row.router_fee_usd \in
                   {Some(Places6(Fr(rf.router_fee_cor * rb.eth_out_usd,
                                    rf.gross_from_pool_cor)))}
                   \cup (IF rf.router_fee_cor = 0 THEN {None} ELSE {})

\* the transfers of the logs that belong to the hash of the row
MatchingLogs(outcome) ==
    SelectSeq(outcome.logs, LAMBDA lg : lg.tx_match /\ lg.topics >= 3)

\* The refinement fails: the log fetch raised, there are no logs, no
\* transfer of the hash goes to the address, or what the router received
\* plus what went to the token contract is not positive.
RefinementFails(outcome) ==
    \/ outcome.fetch = "raised"
    \/ outcome.logs = <<>>
    \/ \A i \in 1..Len(MatchingLogs(outcome)) : MatchingLogs(outcome)[i].to # "me"
    \/ LET ts == MatchingLogs(outcome)
           me == CHOOSE i \in 1..Len(ts) : ts[i].to = "me" /\ \A j \in 1..(i - 1) : ts[j].to # "me"
           router == ts[me].from
       IN  SumValues(SelectSeq(ts, LAMBDA t : t.to = router))
               + SumValues(SelectSeq(ts, LAMBDA t : t.to = "token")) <= 0

\* C13: a buy whose refinement failed still gets its row, and the row has
\* the first-pass tax-token estimate, tax in USD and unit price, and no
\* router fee and no gross-from-pool field.
C13_FailedRefinementKeepsEstimate ==
    /\ (rb.pc = "emit" /\ rb.outcome.fetch # "none" /\ RefinementFails(rb.outcome)) =>
          /\ rb.tax_cor = FirstPassOf(rb).tax_cor
          /\ rb.tax_usd = FirstPassOf(rb).tax_usd
          /\ rb.unit_price_usd = FirstPassOf(rb).unit_price_usd
          /\ ENABLED AppendRow
    /\ (row.built /\ rb.outcome.fetch # "none" /\ RefinementFails(rb.outcome)) =>
          /\ row.trade_type = "buy"
          /\ row.tax_cor_est = Places8(<<FirstPassOf(rb).tax_cor, 1>>)
          /\ row.tax_usd_est = Places6(FirstPassOf(rb).tax_usd)
          /\ row.unit_price_usd = Some(PricePlaces6(FirstPassOf(rb).unit_price_usd.val))
          /\ row.router_fee_cor = None /\ row.router_fee_usd = None
          /\ row.cor_gross_from_pool = None

\* C13 happens: the row of a buy with a price has been built after a log
\* fetch that raised, or after logs that were there but failed to refine.
C13_Witness ==
    /\ row.built /\ row.trade_type = "buy" /\ row.tax_usd_est > 0
    /\ rb.outcome.fetch = "raised" \/ (rb.outcome.logs # <<>> /\ RefinementFails(rb.outcome))

\* C19: on a buy or sell row whose price source is unavailable the unit
\* price is null.
C19_NoPriceNoUnitPrice ==
    (row.built /\ row.price_source = "unavailable" /\ row.trade_type \in {"buy", "sell"})
        => row.unit_price_usd = None

----------------------------------------------------------------------------
(* Claims about the chain-data client and the oracle's requests *)

ListEndpoints == {"txlist", "txintern", "tokentx", "logs"}

\* the provider's explicit answer for an empty range
IsNoRecords(data) ==
    data.status = "0" /\ data.message \in {"No transactions found", "No records found"}

\* a provider error: a non-OK status whose result is not a list
IsProviderError(data) == data.status # "1" /\ data.kind = "text"

\* C14: a chain-data operation (normal, internal, token transactions, logs)
\* returns the empty list for the explicit no-records answer, and never
\* returns the empty list for a provider error answer.
C14_EmptyIsNotError ==
    (op.pc = "done" /\ op.req.ep \in ListEndpoints) =>
        /\ IsNoRecords(op.body) => op.result = 0
        /\ ~IsProviderError(op.body)

\* C15: a block lookup with closest = "after" whose answer is not usable is
\* repeated with closest = "before", and the end block of the run's range
\* is never 0 once the lookup has returned.
C15_EndBlockResolved ==
    (op.pc = "done" /\ op.req.ep = "blk" /\ op.req.closest = "after") =>
        /\ op.fell_back <=> g.req.closest = "before"
        /\ EndBlock(op) # 0

\* C16: after a 429, either client sleeps the Retry-After seconds when the
\* response carries them, 1.5 x 2^attempt seconds when it carries no
\* Retry-After, and writes nothing to the cache in that attempt.
C16_BackoffOn429 ==
    (g.last.status = "429" /\ g.last.hint.kind # "date") =>
        /\ g.last.slept = IF g.last.hint.kind = "secs" THEN 10 * g.last.hint.secs
                          ELSE 15 * Pow2(g.last.attempt)
        /\ ~g.last.wrote

\* C17: a get makes at most `retries` requests, 429 answers included; it
\* raises only after exactly `retries` failed requests, and the error
\* carries the error of the last of them; it returns only a body.
C17_BoundedRetries ==
    /\ g.net <= g.retries
    /\ g.pc = "loop" => g.net = g.attempt
    /\ g.pc = "raised" =>
          /\ g.net = g.retries
          /\ g.last.attempt = g.retries - 1
          /\ g.last_err # "none"
          /\ g.last_err = LastErrOf(g.req, g.last.status, g.last.hint)
    /\ (g.pc = "returned" /\ ~g.cached_at_start) =>
          /\ g.last.status = "ok"
          /\ g.body \in BodiesFor(g.req)

C17_Witness ==
    /\ g.pc = "raised"
    /\ g.last.status = "429"
    /\ g.net = g.retries

C20_CacheKeysInjective ==
    (g.pc # "idle" /\ g.cached_at_start) => es_cache[g.key].by = g.req

----------------------------------------------------------------------------
(* Claims about the flows of one transaction hash *)

\* C30: a token flow with cor_in > 0 carries the incoming_external tag, and
\* a classified hash with cor_in > 0 and neither ETH received nor ETH spent
\* is a stake, unstake, staking_reward, node_reward, internal_transfer or
\* airdrop_or_other, never a transfer.
C30_IncomingIsNeverTransfer ==
    /\ cor_flow.cor_in > 0 => "incoming_external" \in cor_flow.sources
    /\ (classified.type # "pending" /\ cor_flow.cor_in > 0
            /\ eth_flow.eth_in = 0 /\ eth_flow.eth_out = 0) =>
          classified.type \in {"stake", "unstake", "staking_reward", "node_reward",
                               "internal_transfer", "airdrop_or_other"}

C30_Witness ==
    /\ classified.type = "airdrop_or_other"
    /\ cor_flow.cor_in > 0 /\ cor_flow.cor_out > 0
    /\ eth_flow = NoEthFlow

\* the records of the hash have been turned into flows
FlowsComputed == pc \notin {"idle", "flows"}

\* the sum of the fees of the normal transactions the address sent
RECURSIVE SenderGas(_)
SenderGas(legs) ==
    IF legs = <<>> THEN 0
    ELSE (IF Head(legs).from = "me" THEN Head(legs).gas ELSE 0) + SenderGas(Tail(legs))

\* the output row of the hash, and the balances before it
HashRow == final_rows[Len(final_rows)]
BalanceBefore ==
    IF Len(final_rows) = 1 THEN [wallet |-> 0, staked |-> 0]
    ELSE [wallet |-> final_rows[Len(final_rows) - 1].cor_wallet_after,
          staked |-> final_rows[Len(final_rows) - 1].cor_staked_after]

\* C23: a hash whose only record is a token transfer from the rewards
\* contract to the address is classified staking_reward with tax 0, and its
\* row in the replay has the wallet balance higher by the amount and the
\* staked balance as before.
C23_RewardEndToEnd ==
    (/\ cor_legs = <<RewardLeg>>
     /\ eth_legs = NoEthLegs) =>
        /\ pc \in {"row", "rows", "loop", "replay", "done"} =>
              classified = Classified("staking_reward", 0, 0)
        /\ pc = "done" =>
              /\ HashRow.trade_type = "staking_reward"
              /\ HashRow.cor_wallet_after = BalanceBefore.wallet + RewardLeg.amt
              /\ HashRow.cor_staked_after = BalanceBefore.staked

C23_Witness ==
    /\ pc = "done"
    /\ cor_legs = <<RewardLeg>>
    /\ eth_legs = NoEthLegs
    /\ Len(final_rows) = 2
    /\ BalanceBefore.wallet > 0

\* C24: a hash with no token transfer in which the address sends ETH in a
\* normal transaction to another own address has an ETH flow tagged
\* internal_out and internal, and is classified eth_transfer.
C24_OwnEthMoveIsEthTransfer ==
    (/\ cor_legs = <<>>
     /\ \E i \in 1..Len(eth_legs.normal) :
           /\ eth_legs.normal[i].from = "me" /\ eth_legs.normal[i].to = "mine"
           /\ eth_legs.normal[i].value > 0) =>
        /\ FlowsComputed => {"internal_out", "internal"} \subseteq eth_flow.sources
        /\ classified.type \in {"pending", "eth_transfer"}
        /\ pc = "done" => HashRow.trade_type = "eth_transfer"

C24_Witness ==
    /\ pc = "done"
    /\ cor_legs = <<>>
    /\ eth_legs = [normal |-> <<EthRecord("me", "mine", 2600, 700)>>, internals |-> <<>>]
    /\ HashRow.trade_type = "eth_transfer"

\* C26: gas_eth of the ETH flow of a hash is the sum of the fees of the
\* normal transactions whose sender is the address: internal transactions
\* and normal transactions the address only receives add nothing.
C26_GasOnlyFromSender ==
    FlowsComputed => eth_flow.gas_eth = SenderGas(eth_legs.normal)

C26_Witness ==
    /\ FlowsComputed
    /\ eth_flow.gas_eth = 700
    /\ Len(eth_legs.normal) = 2
    /\ \E i \in 1..2 : eth_legs.normal[i].to = "me" /\ eth_legs.normal[i].gas > 0
    /\ eth_legs.internals # <<>>

----------------------------------------------------------------------------
(* Claims about the replay *)

\* the orders n rows can be given in
Orders(n) == {p \in [1..n -> 1..n] : \A i, j \in 1..n : p[i] = p[j] => i = j}

\* C25: what the run returns is the same for every order the same rows can
\* be given in: the same output rows, with the same balances, in the same
\* order.
C25_ReplayDeterministic ==
    pc = "done" =>
        \A p \in Orders(Len(raw_rows)) :
            SortAndReplay([i \in 1..Len(raw_rows) |-> raw_rows[p[i]]]) = returned.rows

\* C25 happens: two rows of one address in the same block with the same
\* timestamp, which move the balance differently
C25_Witness ==
    /\ pc = "done"
    /\ Len(final_rows) = 2
    /\ final_rows[1].address = final_rows[2].address
    /\ final_rows[1].block = final_rows[2].block
    /\ final_rows[1].timestamp = final_rows[2].timestamp
    /\ final_rows[1].cor_wallet_after # final_rows[2].cor_wallet_after

\* one iteration of the replay loop has run on raw_rows[idx]
ReplayFrame ==
    (pc = "replay" /\ idx' = idx + 1) =>
        LET r == raw_rows[idx]
            old == state_by_addr[r.address]
            new == state_by_addr'[r.address]
        IN  /\ \A a \in Addrs \ {r.address} : state_by_addr'[a] = state_by_addr[a]
            /\ r.trade_type \notin {"stake", "unstake"} =>
                  /\ new.cor_staked = old.cor_staked
                  /\ new.cor_wallet = old.cor_wallet + (r.cor_in - r.cor_out)
                  /\ new.eth = old.eth + (r.eth_in - r.eth_out - r.gas_fee_eth)

\* C27: replaying a row changes the ledger state of no other address, and a
\* row that is neither a stake nor an unstake leaves the staked balance of
\* its address, adds cor_in - cor_out to the wallet balance and
\* eth_in - eth_out - gas to the ETH balance.
C27_OtherRowsLeaveStaked == [][ReplayFrame]_vars

\* C27 happens: a row that is neither stake nor unstake has moved the wallet
\* of an address that has a staked balance
C27_Witness ==
    \E i \in 1..Len(final_rows) :
        /\ final_rows[i].trade_type \notin {"stake", "unstake"}
        /\ final_rows[i].cor_in # final_rows[i].cor_out
        /\ final_rows[i].cor_staked_after # 0

----------------------------------------------------------------------------
(* Claims about the first-pass estimate *)

\* C22: on the row of a buy without a successful refinement the token tax is
\* cor_in x 0.05 / 0.95, and the unit price is eth_out_usd over the gross
\* estimate cor_in + tax = cor_in / 0.95 (tax 5 and gross 100 for cor_in 95);
\* on the row of a sell the token tax is cor_out x 0.05.
C22_FirstPassEstimate ==
    row.built =>
        /\ (row.trade_type = "buy" /\ ~rb.refine.some) =>
              /\ row.tax_cor_est * 95 = rb.cf.cor_in * 5 * 100
              /\ rb.cf.cor_in = 95 => row.tax_cor_est = 500
              /\ rb.unit_price_usd = SomeF(Fr(rb.eth_out_usd * 95, rb.cf.cor_in * 100))
              /\ row.unit_price_usd = Some(PricePlaces6(rb.unit_price_usd.val))
        /\ row.trade_type = "sell" =>
              row.tax_cor_est * 100 = rb.cf.cor_out * 5 * 100

\* C22 happens: a buy of 95 tokens for 99 USD whose logs could not be
\* fetched: tax 5, unit price 0.99 = 99 / 100
C22_Witness ==
    /\ row.built
    /\ row.trade_type = "buy"
    /\ rb.outcome.fetch = "raised"
    /\ rb.cf.cor_in = 95 /\ rb.eth_out_usd = 99
    /\ row.tax_cor_est = 500
    /\ row.unit_price_usd = Some(990000)

----------------------------------------------------------------------------
(* Claims about what the chain-data cache keeps *)

----------------------------------------------------------------------------
(* Claims about the price lookup of a row *)

\* the row of raw_rows for the hash of a lookup
RowOfQuote(q) ==
    CHOOSE r \in {raw_rows[i] : i \in 1..Len(raw_rows)} :
        r.address = q.address /\ r.tx_hash = q.tx_hash

\* C29: an exception of the price oracle never leaves the run: the row of
\* the hash is appended with eth_usd 0.0 and price_source unavailable, the
\* run is only ever left by an exception of a fetch, and a run that returns
\* has visited every address and returns a row for every hash looked up.
C29_OracleFailureDoesNotAbort ==
    /\ \A i \in 1..Len(quotes) :
          quotes[i].answer.raised =>
              /\ \E j \in 1..Len(raw_rows) :
                    /\ raw_rows[j].address = quotes[i].address
                    /\ raw_rows[j].tx_hash = quotes[i].tx_hash
              /\ RowOfQuote(quotes[i]).eth_usd = 0
              /\ RowOfQuote(quotes[i]).price_source = "unavailable"
    /\ pc = "raised" => fetch_i < 3
    /\ pc = "done" =>
          /\ indexed = addr_set
          /\ returned.status = "rows"
          /\ Len(returned.rows) = Len(quotes)
          /\ \A i \in 1..Len(quotes) :
                \E j \in 1..Len(returned.rows) :
                    /\ returned.rows[j].address = quotes[i].address
                    /\ returned.rows[j].tx_hash = quotes[i].tx_hash

\* C29 happens: the oracle raised for the first row of a run, and the run
\* went on to a second address and returned both rows
C29_Witness ==
    /\ pc = "done"
    /\ Len(quotes) = 2
    /\ quotes[1].answer.raised /\ quotes[1].ts # 0
    /\ quotes[1].address # quotes[2].address
    /\ ~quotes[2].answer.raised /\ quotes[2].ts # 0
    /\ Len(returned.rows) = 2

----------------------------------------------------------------------------
(* Claims about two workers racing for one cache key *)

\* both workers missed the key, and both wrote its file
BothMissedAndWrote ==
    \A w \in RaceWorkers : wk[w].pc = "done" /\ wk[w].missed /\ wk[w].wrote

\* C21: two workers that both miss the same key write identical content, on
\* the chain-data cache and on the price cache, so the file left in the cache
\* is the same whichever of them writes last.
C21_RacingWritersWriteTheSame ==
    BothMissedAndWrote =>
        /\ wk[1].written = wk[2].written
        /\ shared = wk[1].written

====
